---- MODULE Spec2Model ----
(***************************************************************************)
(* The history engine of the calculator: app/calculator.py (Calculator),   *)
(* with the operand validation of app/input_validators.py and the          *)
(* arithmetic strategies of app/operations.py.                             *)
(*                                                                         *)
(* Strings are sequences of one-character strings, so that parsing an      *)
(* operand is computed rather than assumed.  A Decimal is a record         *)
(* [coef, exp] standing for coef * 10^exp; a float is modelled by the      *)
(* integer it holds (only integer-valued operands are drawn).              *)
(***************************************************************************)
EXTENDS Integers, Sequences, FiniteSets, TLC

\* ------------------------------------------------------------------------
\* Bounds of the model
\* ------------------------------------------------------------------------

\* largest number of snapshots the undo stack is allowed to reach
MaxOps == 2

\* largest number of registered observers
MaxObservers == 2

\* largest absolute value of an operand handed to Operation.execute or to
\* CalculationFactory directly
MaxOperand == 2

\* largest number of reads of one Calculation's result
MaxReads == 2

\* ------------------------------------------------------------------------
\* Configuration (CalculatorConfig)
\* ------------------------------------------------------------------------

\* ceiling on the absolute value of an operand
max_input_value == 1000

\* ------------------------------------------------------------------------
\* Text and numbers
\* ------------------------------------------------------------------------

Digits == {"0", "1", "2", "3", "4", "5", "6", "7", "8", "9"}

DigitVal(c) ==
    CASE c = "0" -> 0 [] c = "1" -> 1 [] c = "2" -> 2 [] c = "3" -> 3
      [] c = "4" -> 4 [] c = "5" -> 5 [] c = "6" -> 6 [] c = "7" -> 7
      [] c = "8" -> 8 [] c = "9" -> 9

RECURSIVE Pow10(_)
Pow10(e) == IF e = 0 THEN 1 ELSE 10 * Pow10(e - 1)

Abs(n) == IF n < 0 THEN -n ELSE n

\* the characters str.strip(), str.split() and the pattern \s take for blank
Whitespace == {" ", "\t"}

\* str.strip(): leading and trailing blanks removed
RECURSIVE lstrip(_)
lstrip(s) == IF s # <<>> /\ Head(s) \in Whitespace THEN lstrip(Tail(s)) ELSE s

RECURSIVE rstrip(_)
rstrip(s) ==
    IF s # <<>> /\ s[Len(s)] \in Whitespace THEN rstrip(SubSeq(s, 1, Len(s) - 1)) ELSE s

strip(s) == rstrip(lstrip(s))

RECURSIVE DigitsValue(_)
DigitsValue(s) ==
    IF s = <<>> THEN 0
    ELSE 10 * DigitsValue(SubSeq(s, 1, Len(s) - 1)) + DigitVal(s[Len(s)])

\* Decimal(str): an optional sign, digits with at most one point among
\* them, and optionally E or e, an optional sign and digits; any other text
\* raises InvalidOperation.  The digits after the point lower the exponent.
DecimalOf(s) ==
    LET signed == s # <<>> /\ Head(s) \in {"+", "-"}
        body   == IF signed THEN Tail(s) ELSE s
        marks  == {i \in 1..Len(body) : body[i] \in {"E", "e"}}
        mark_  == IF marks = {} THEN Len(body) + 1 ELSE CHOOSE i \in marks : TRUE
        mant   == SubSeq(body, 1, mark_ - 1)
        power  == SubSeq(body, mark_ + 1, Len(body))
        psign  == power # <<>> /\ Head(power) \in {"+", "-"}
        pbody  == IF psign THEN Tail(power) ELSE power
        points == {i \in 1..Len(mant) : mant[i] = "."}
        point  == IF points = {} THEN Len(mant) + 1 ELSE CHOOSE i \in points : TRUE
        whole  == SubSeq(mant, 1, point - 1)
        frac   == SubSeq(mant, point + 1, Len(mant))
        wellFormed ==
            /\ Cardinality(marks) <= 1
            /\ Cardinality(points) <= 1
            /\ whole \o frac # <<>>
            /\ \A i \in 1..Len(whole) : whole[i] \in Digits
            /\ \A i \in 1..Len(frac) : frac[i] \in Digits
            /\ marks # {} => pbody # <<>>
            /\ \A i \in 1..Len(pbody) : pbody[i] \in Digits
        magnitude == DigitsValue(whole \o frac)
        written   == IF psign /\ Head(power) = "-"
                     THEN -DigitsValue(pbody) ELSE DigitsValue(pbody)
    IN  IF ~wellFormed
        THEN [exc |-> "InvalidOperation", num |-> [coef |-> 0, exp |-> 0]]
        ELSE [exc |-> "none",
              num |-> [coef |-> IF signed /\ Head(s) = "-" THEN -magnitude ELSE magnitude,
                       exp  |-> written - Len(frac)]]

\* numeric value of a Decimal; the Decimals drawn with a negative exponent
\* are whole numbers written with a zero fraction, such as 5.0
Value(d) ==
    IF d.exp >= 0 THEN d.coef * Pow10(d.exp) ELSE d.coef \div Pow10(-d.exp)

\* Decimal.normalize(): trailing zeros of the coefficient move to the exponent
RECURSIVE normalize(_)
normalize(d) ==
    IF d.coef = 0 THEN [coef |-> 0, exp |-> 0]
    ELSE IF d.coef % 10 = 0 THEN normalize([coef |-> d.coef \div 10, exp |-> d.exp + 1])
    ELSE d

\* float(Decimal)
float(d) == d.coef * Pow10(d.exp)

\* InputValidator.validate_number
validate_number(value) ==
    LET parsed == DecimalOf(strip(value))
    IN  IF parsed.exc # "none"
        THEN [exc |-> "ValidationError", msg |-> "Invalid number format",
              num |-> parsed.num]
        ELSE IF Abs(Value(parsed.num)) > max_input_value
        THEN [exc |-> "ValidationError", msg |-> "Value exceeds maximum allowed",
              num |-> parsed.num]
        ELSE [exc |-> "none", msg |-> "", num |-> normalize(parsed.num)]

\* ------------------------------------------------------------------------
\* Operations (app/operations.py)
\* ------------------------------------------------------------------------

\* OperationFactory._operations as the class body sets it
OperationClasses ==
    [add |-> "Addition", subtract |-> "Subtraction", multiply |-> "Multiplication",
     divide |-> "Division", power |-> "Power", root |-> "Root"]

\* OperationFactory._operations: the registered operation names
Operations == {"add", "subtract", "multiply", "divide", "power", "root"}

RECURSIVE GCD(_, _)
GCD(m, n) == IF n = 0 THEN m ELSE GCD(n, m % n)

RECURSIVE StripFactor(_, _)
StripFactor(n, p) == IF n % p = 0 THEN StripFactor(n \div p, p) ELSE n

\* a result that is the integer n
Exact(n) == [kind |-> "exact", num |-> n, den |-> 1]

NoValue == [kind |-> "none", num |-> 0, den |-> 1]

\* a division that keeps the integer part of the quotient only
QuotientTruncated(a, b) == Exact(a \div b)

\* Decimal a / b for b # 0: the quotient num/den in lowest terms; it is exact
\* when its expansion terminates and rounded to the context precision otherwise
Quotient(a, b) ==
    LET g == GCD(Abs(a), Abs(b))
        n == (IF b < 0 THEN -a ELSE a) \div g
        d == Abs(b) \div g
    IN  [kind |-> IF StripFactor(StripFactor(d, 2), 5) = 1 THEN "exact" ELSE "rounded",
         num |-> n, den |-> d]

RECURSIVE IntPow(_, _)
IntPow(a, b) == IF b = 0 THEN 1 ELSE a * IntPow(a, b - 1)

\* pow(float, float) raises OverflowError when the result exceeds the largest
\* double (about 1.8 * 10^308): certainly so for |a| >= 10 and b >= 309, and
\* for |a| >= 2 and b >= 1024.  The operands drawn here either satisfy this
\* or give a power far below the limit.
FloatPowOverflows(a, b) ==
    \/ Abs(a) >= 10 /\ b >= 309
    \/ Abs(a) >= 2 /\ b >= 1024

\* a Root that tests the degree before the radicand
validate_operands_degree_first(op, a, b) ==
    CASE op = "divide" ->
            IF Value(b) = 0 THEN "Division by zero is not allowed" ELSE ""
      [] op = "power" ->
            IF Value(b) < 0 THEN "Negative exponents not supported" ELSE ""
      [] op = "root" ->
            IF Value(b) = 0 THEN "Zero root is undefined"
            ELSE IF Value(a) < 0 THEN "Cannot calculate root of negative number"
            ELSE ""
      [] OTHER -> ""

\* Operation.validate_operands and its overrides: the message of the
\* ValidationError raised, or "" when the operands are accepted
validate_operands(op, a, b) ==
    CASE op = "divide" ->
            IF Value(b) = 0 THEN "Division by zero is not allowed" ELSE ""
      [] op = "power" ->
            IF Value(b) < 0 THEN "Negative exponents not supported" ELSE ""
      [] op = "root" ->
            IF Value(a) < 0 THEN "Cannot calculate root of negative number"
            ELSE IF Value(b) = 0 THEN "Zero root is undefined"
            ELSE ""
      [] OTHER -> ""

\* what each operation computes once its operands are accepted
compute(op, a, b) ==
    LET x == Value(a)
        y == Value(b)
    IN  CASE op = "add"      -> [exc |-> "none", msg |-> "", val |-> Exact(x + y)]
          [] op = "modulus"  ->
                \* a caller's Operation registered next to the six: a % b,
                \* which has the sign of a
                IF y = 0
                THEN [exc |-> "InvalidOperation", msg |-> "[<class 'decimal.InvalidOperation'>]",
                      val |-> NoValue]
                ELSE [exc |-> "none", msg |-> "",
                      val |-> Exact((IF x < 0 THEN -1 ELSE 1) * (Abs(x) % Abs(y)))]
          [] op = "subtract" -> [exc |-> "none", msg |-> "", val |-> Exact(x - y)]
          [] op = "multiply" -> [exc |-> "none", msg |-> "", val |-> Exact(x * y)]
          [] op = "divide"   ->
                IF y = 0
                THEN [exc |-> "ZeroDivisionError", msg |-> "division by zero", val |-> NoValue]
                ELSE [exc |-> "none", msg |-> "", val |-> Quotient(x, y)]
          [] op = "power"    ->
                \* Decimal(pow(float(a), float(b)))
                IF y < 0 /\ float(a) = 0
                THEN [exc |-> "ZeroDivisionError",
                      msg |-> "0.0 cannot be raised to a negative power", val |-> NoValue]
                ELSE IF y < 0
                THEN [exc |-> "none", msg |-> "",
                      val |-> [kind |-> "float", num |-> 1, den |-> IntPow(float(a), -float(b))]]
                ELSE IF FloatPowOverflows(float(a), float(b))
                THEN [exc |-> "OverflowError",
                      msg |-> "(34, 'Numerical result out of range')", val |-> NoValue]
                ELSE [exc |-> "none", msg |-> "", val |-> Exact(IntPow(float(a), float(b)))]
          [] op = "root"     ->
                \* Decimal(pow(float(a), 1 / float(b)))
                IF float(b) = 0
                THEN [exc |-> "ZeroDivisionError", msg |-> "float division by zero", val |-> NoValue]
                ELSE IF float(a) = 0 /\ float(b) < 0
                THEN [exc |-> "ZeroDivisionError",
                      msg |-> "0.0 cannot be raised to a negative power", val |-> NoValue]
                ELSE IF float(a) < 0
                THEN [exc |-> "TypeError",
                      msg |-> "conversion from complex to Decimal is not supported", val |-> NoValue]
                ELSE [exc |-> "none", msg |-> "",
                      val |-> [kind |-> "root", num |-> float(a), den |-> float(b)]]

\* Operation.execute: validation first, then the computation
execute(op, a, b) ==
    LET msg == validate_operands(op, a, b)
    IN  IF msg # ""
        THEN [exc |-> "ValidationError", msg |-> msg, val |-> NoValue]
        ELSE compute(op, a, b)

\* ------------------------------------------------------------------------
\* Calculation and memento (app/calculation.py, app/calculator_memento.py)
\* ------------------------------------------------------------------------

\* CalculationFactory._calculations once the module is imported
CalculationClasses ==
    [add |-> "AddCalculation", subtract |-> "SubtractCalculation",
     multiply |-> "MultiplyCalculation", divide |-> "DivideCalculation",
     power |-> "PowerCalculation", root |-> "RootCalculation"]

\* CalculationFactory._calculations: the registered calculation types
CalculationTypes == {"add", "subtract", "multiply", "divide", "power", "root"}

\* a factory that builds a Calculation whatever the type
create_calculation_unchecked(type, operand1, operand2) ==
    [exc |-> "none",
     calc |-> [operation |-> type, operand1 |-> operand1, operand2 |-> operand2]]

\* CalculationFactory.create_calculation: a Calculation of a registered type
\* (its result is computed when read), or ValueError for any other type
create_calculation(type, operand1, operand2) ==
    IF type \in CalculationTypes
    THEN [exc |-> "none",
          calc |-> [operation |-> type, operand1 |-> operand1, operand2 |-> operand2]]
    ELSE [exc |-> "ValueError",
          calc |-> [operation |-> "", operand1 |-> 0, operand2 |-> 0]]

\* list(_history): a new list object with the items of the history
list(h) == [ref |-> "copy", items |-> h]

\* CalculatorMemento(history): a snapshot that keeps the list object it is
\* given, here its items and which object it is (the creation timestamp is
\* not modelled)
CalculatorMemento(l) == [history |-> l.items, list |-> l.ref]

\* ------------------------------------------------------------------------
\* Inputs
\* ------------------------------------------------------------------------

None == "None"

\* the REPL's result when it is None
NoResult == [is |-> "None", coef |-> 0, exp |-> 0]

\* the REPL's result when it is a Decimal
Some(d) == [is |-> "Decimal", coef |-> d.coef, exp |-> d.exp]

\* the loop waiting at its prompt, between two lines
AtPrompt == [at |-> "prompt", line |-> <<>>, branch |-> "", a |-> <<>>, b |-> <<>>]

\* the loop back at its prompt after the line it has answered
Answered(line) == [AtPrompt EXCEPT !.line = line]

\* calculator_repl not yet called
NotStarted == [AtPrompt EXCEPT !.at = "start"]

\* the operand strings handed to perform_operation, as (a, b)
OperandPairs ==
    { << <<" ", "8">>, <<"0">> >>,                  \* division by zero, zero-degree root
      << <<"-", "1", "0">>, <<"-", "2">> >>,        \* negative radicand, negative exponent
      << <<"x">>, <<"3">> >>,                       \* not a number
      << <<"2">>, <<"2", "0", "0", "0">> >> }       \* above max_input_value

\* what set_operation is handed: an instance of a registered operation, or
\* None (the method stores whatever it is given)
OperationArgs == Operations \cup {None}

\* observers handed to add_observer; "str" is not a HistoryObserver
ObserverArgs == {"LoggingObserver", "str"}

HistoryObservers == {"LoggingObserver", "CapturingObserver"}

\* ------------------------------------------------------------------------
\* State of a Calculator
\* ------------------------------------------------------------------------

VARIABLES
    history,      \* _history: sequence of Calculation
    undo_stack,   \* _undo_stack: sequence of CalculatorMemento, top last
    redo_stack,   \* _redo_stack: sequence of CalculatorMemento, top last
    observers,    \* _observers, in registration order
    operation,    \* _operation: name of the armed Operation, or None
    call,         \* the method called last
    args,         \* the arguments it was called with
    raised,       \* the exception that call raised, or "none"
    message,      \* str() of that exception
    ret,          \* what it returned: "True", "False", "Decimal" or "None"
    result,       \* the Decimal returned by perform_operation
    notified,     \* the update() calls made during the last call, in order
    phase,        \* undo/redo scenario: "build", "undo" or "redo"; with a
                  \* history file: "saved" or "written", by who wrote it last
    mark,         \* the history to come back to: the one before the first
                  \* undo, or the one save_history wrote to the file
    undone,       \* undo/redo scenario: number of undo() calls made
    redone,       \* undo/redo scenario: number of redo() calls made
    shown,        \* the list show_history returned last, as its caller holds it
    file,         \* the history file: whether it exists, and its rows
    created,      \* the Calculation built last by CalculationFactory directly
    reads,        \* number of reads of that Calculation's result so far
    mapping,      \* the dict Calculation.to_dict returned last
    operations,   \* OperationFactory._operations: name -> operation class
    calculations, \* CalculationFactory._calculations: name -> calculation class
    running,      \* the REPL loop: where it is, and the line it is working on
    repl_result,  \* the REPL's running result (its local variable result)
    printed,      \* what the REPL printed for the last line
    legacy        \* the REPL of app/calculator/calculator.py: its locals
                  \* result and history, where it is, the line it read last
                  \* and what it printed for it

calc == <<history, undo_stack, redo_stack, observers, operation>>
outcome == <<call, args, raised, message, ret, result, notified>>
scenario == <<phase, mark, undone, redone>>
session == <<shown, file, created, reads>>
registries == <<operations, calculations>>
repl == <<running, repl_result, printed, legacy>>
extra == <<mapping, operations, calculations, running, repl_result, printed, legacy>>
vars == <<history, undo_stack, redo_stack, observers, operation,
          call, args, raised, message, ret, result, notified,
          phase, mark, undone, redone,
          shown, file, created, reads,
          mapping, operations, calculations, running, repl_result, printed, legacy>>

\* the legacy REPL's result before the first calculation, and a float as
\* the fraction num/den in lowest terms
NoFloat == [is |-> "None", num |-> 0, den |-> 1]

\* Calculator.__init__; the legacy REPL has printed its help text
Init ==
    /\ history = <<>>
    /\ observers = <<>>
    /\ undo_stack = <<>>
    /\ redo_stack = <<>>
    /\ operation = None
    /\ call = "__init__"
    /\ args = <<>>
    /\ raised = "none"
    /\ message = ""
    /\ ret = "None"
    /\ result = NoValue
    /\ notified = <<>>
    /\ phase = "build"
    /\ mark = <<>>
    /\ undone = 0
    /\ redone = 0
    /\ shown = [ref |-> "none", items |-> <<>>]
    /\ file = [exists |-> FALSE, rows |-> <<>>]
    /\ created = [operation |-> None, operand1 |-> 0, operand2 |-> 0]
    /\ reads = 0
    /\ mapping = [operation |-> None, operand1 |-> 0, operand2 |-> 0, result |-> NoValue]
    /\ operations = OperationClasses
    /\ calculations = CalculationClasses
    /\ running = NotStarted
    /\ repl_result = NoResult
    /\ printed = ""
    /\ legacy = [at |-> "prompt", result |-> NoFloat, history |-> <<>>,
                 line |-> <<>>, printed |-> "help"]

\* a call that returns v and raises nothing
Returns(name, a, v) ==
    /\ call' = name
    /\ args' = a
    /\ raised' = "none"
    /\ message' = ""
    /\ ret' = v
    /\ result' = NoValue

\* a call that raises exception e with message m
Raises(name, a, e, m) ==
    /\ call' = name
    /\ args' = a
    /\ raised' = e
    /\ message' = m
    /\ ret' = "None"
    /\ result' = NoValue

\* Calculator.add_observer
add_observer(observer) ==
    /\ IF observer \notin HistoryObservers
       THEN /\ Raises("add_observer", <<observer>>, "TypeError", "Observer must be a HistoryObserver instance")
            /\ observers' = observers
       ELSE /\ Len(observers) < MaxObservers
            /\ Returns("add_observer", <<observer>>, "None")
            /\ observers' = Append(observers, observer)
    /\ notified' = <<>>
    /\ UNCHANGED <<history, undo_stack, redo_stack, operation>>

\* observers notified last-registered first
notify_observers_reversed(calculation, calculator) ==
    [i \in 1..Len(observers) |->
        [observer |-> observers[Len(observers) + 1 - i], calculation |-> calculation,
         seen |-> calculator]]

\* Calculator._notify_observers: one update(calculation) per observer, in
\* registration order; seen is the Calculator as update finds it
notify_observers(calculation, calculator) ==
    [i \in 1..Len(observers) |->
        [observer |-> observers[i], calculation |-> calculation, seen |-> calculator]]

\* observers notified on entry, before the snapshot and the append
notified_on_entry(entered, committed) == entered

\* lines 118-133: _notify_observers is the last statement before the return,
\* after the snapshot, the cleared redo stack and the append
notified_last(entered, committed) == committed

\* Calculator.set_operation
set_operation(op) ==
    /\ operation' = op
    /\ Returns("set_operation", <<op>>, "None")
    /\ notified' = <<>>
    /\ UNCHANGED <<history, undo_stack, redo_stack, observers>>

\* the exceptions perform_operation catches around execute
Caught == {"ZeroDivisionError", "ValueError", "ValidationError"}

\* a snapshot made of the list _history itself, not of a copy of it
snapshot_push_shared(stack, h) ==
    Append(stack, CalculatorMemento([ref |-> "_history", items |-> h]))

\* _undo_stack.append(CalculatorMemento(list(_history)))
snapshot_push(stack, h) == Append(stack, CalculatorMemento(list(h)))

\* the stack after _history was changed in place (append, clear) to h: a
\* memento that holds the list _history itself shows the change
in_place(stack, h) ==
    [i \in DOMAIN stack |->
        IF stack[i].list = "_history" THEN [stack[i] EXCEPT !.history = h]
        ELSE stack[i]]

\* the stack after self._history was bound to a new list: a memento that
\* held the former list keeps it, and it is _history no more
rebound(stack) ==
    [i \in DOMAIN stack |->
        IF stack[i].list = "_history" THEN [stack[i] EXCEPT !.list = "copy"]
        ELSE stack[i]]

\* _undo_stack.pop() / _redo_stack.pop(): the stack without its top
pop(stack) == SubSeq(stack, 1, Len(stack) - 1)

\* an except branch without the _undo_stack.pop()
rollback_skipped(stack) == stack

\* _undo_stack.pop() in the except branch of perform_operation
rollback(stack) == pop(stack)

\* the memento at the bottom of a stack, the oldest one
oldest(stack) == stack[1]

\* the memento on top of a stack
top(stack) == stack[Len(stack)]

\* a perform_operation without the _redo_stack.clear()
redo_kept(stack) == stack

\* _redo_stack.clear() in perform_operation
redo_invalidate(stack) == <<>>

\* the calculation inserted at the front instead of appended
record_front(h, calculation) == <<calculation>> \o h

\* _history.append(calculation)
record(h, calculation) == Append(h, calculation)

\* a Calculation built with the two operands exchanged
recorded_calculation_swapped(name, num_a, num_b) ==
    create_calculation(name, float(num_b), float(num_a))

\* the Calculation perform_operation builds after a successful execute:
\* CalculationFactory.create_calculation(name, float(num_a), float(num_b))
recorded_calculation(name, num_a, num_b) ==
    create_calculation(name, float(num_a), float(num_b))

\* perform_operation from the snapshot on (an operation is armed)
perform_armed(a, b, num_a, num_b) ==
    LET pushed == snapshot_push(undo_stack, history)
        ex     == execute(operation, num_a, num_b)
        made   == recorded_calculation(operation, num_a, num_b)
    IN  /\ redo_stack' = redo_invalidate(redo_stack)
        /\ IF ex.exc \in Caught
           THEN \* rolled back and re-raised as OperationError
                /\ undo_stack' = rollback(pushed)
                /\ history' = history
                /\ notified' = <<>>
                /\ Raises("perform_operation", <<a, b>>, "OperationError", ex.msg)
           ELSE IF ex.exc # "none"
           THEN \* any other exception propagates as it is
                /\ Len(undo_stack) < MaxOps
                /\ undo_stack' = pushed
                /\ history' = history
                /\ notified' = <<>>
                /\ Raises("perform_operation", <<a, b>>, ex.exc, ex.msg)
           ELSE IF made.exc # "none"
           THEN /\ Len(undo_stack) < MaxOps
                /\ undo_stack' = pushed
                /\ history' = history
                /\ notified' = <<>>
                /\ Raises("perform_operation", <<a, b>>, made.exc, "Unsupported calculation type")
           ELSE /\ Len(undo_stack) < MaxOps
                /\ undo_stack' = in_place(pushed, record(history, made.calc))
                /\ history' = record(history, made.calc)
                /\ notified' = notify_observers(made.calc,
                       notified_last(
                           [history |-> history, undo_stack |-> undo_stack,
                            redo_stack |-> redo_stack],
                           [history |-> record(history, made.calc),
                            undo_stack |-> in_place(pushed, record(history, made.calc)),
                            redo_stack |-> redo_invalidate(redo_stack)]))
                /\ call' = "perform_operation"
                /\ args' = <<a, b>>
                /\ raised' = "none"
                /\ message' = ""
                /\ ret' = "Decimal"
                /\ result' = ex.val

\* the snapshot taken before the test for an armed operation
perform_validated_snapshot_first(a, b, num_a, num_b) ==
    IF operation = None
    THEN /\ Raises("perform_operation", <<a, b>>, "OperationError",
                   "No operation set. Call set_operation() first.")
         /\ notified' = <<>>
         /\ Len(undo_stack) < MaxOps
         /\ undo_stack' = snapshot_push(undo_stack, history)
         /\ redo_stack' = redo_invalidate(redo_stack)
         /\ history' = history
    ELSE perform_armed(a, b, num_a, num_b)

\* perform_operation once both operands are parsed
perform_validated(a, b, num_a, num_b) ==
    IF operation = None
    THEN /\ Raises("perform_operation", <<a, b>>, "OperationError",
                   "No operation set. Call set_operation() first.")
         /\ notified' = <<>>
         /\ UNCHANGED <<history, undo_stack, redo_stack>>
    ELSE perform_armed(a, b, num_a, num_b)

\* the test for an armed operation made before the operands are validated
perform_operation_armed_first(a, b) ==
    LET va == validate_number(a)
        vb == validate_number(b)
    IN  /\ IF operation = None
           THEN /\ Raises("perform_operation", <<a, b>>, "OperationError",
                          "No operation set. Call set_operation() first.")
                /\ notified' = <<>>
                /\ UNCHANGED <<history, undo_stack, redo_stack>>
           ELSE IF va.exc # "none"
           THEN /\ Raises("perform_operation", <<a, b>>, va.exc, va.msg)
                /\ notified' = <<>>
                /\ UNCHANGED <<history, undo_stack, redo_stack>>
           ELSE IF vb.exc # "none"
           THEN /\ Raises("perform_operation", <<a, b>>, vb.exc, vb.msg)
                /\ notified' = <<>>
                /\ UNCHANGED <<history, undo_stack, redo_stack>>
           ELSE perform_armed(a, b, va.num, vb.num)
        /\ UNCHANGED <<observers, operation>>

\* Calculator.perform_operation
perform_operation(a, b) ==
    LET va == validate_number(a)
        vb == validate_number(b)
    IN  /\ IF va.exc # "none"
           THEN /\ Raises("perform_operation", <<a, b>>, va.exc, va.msg)
                /\ notified' = <<>>
                /\ UNCHANGED <<history, undo_stack, redo_stack>>
           ELSE IF vb.exc # "none"
           THEN /\ Raises("perform_operation", <<a, b>>, vb.exc, vb.msg)
                /\ notified' = <<>>
                /\ UNCHANGED <<history, undo_stack, redo_stack>>
           ELSE perform_validated(a, b, va.num, vb.num)
        /\ UNCHANGED <<observers, operation>>

\* clear_history without the _redo_stack.clear()
clear_history_keeps_redo ==
    /\ history' = <<>>
    /\ undo_stack' = <<>>
    /\ redo_stack' = redo_stack
    /\ notified' = <<>>
    /\ Returns("clear_history", <<>>, "None")
    /\ UNCHANGED <<observers, operation>>

\* a clear_history that also forgets the armed operation
clear_history_disarms ==
    /\ history' = <<>>
    /\ undo_stack' = <<>>
    /\ redo_stack' = <<>>
    /\ operation' = None
    /\ notified' = <<>>
    /\ Returns("clear_history", <<>>, "None")
    /\ UNCHANGED observers

\* Calculator.clear_history
clear_history ==
    /\ history' = <<>>
    /\ undo_stack' = <<>>
    /\ redo_stack' = <<>>
    /\ notified' = <<>>
    /\ Returns("clear_history", <<>>, "None")
    /\ UNCHANGED <<observers, operation>>

\* undo() that reads the top snapshot without popping it
undo_peek ==
    /\ IF undo_stack = <<>>
       THEN /\ Returns("undo", <<>>, "False")
            /\ UNCHANGED <<history, undo_stack, redo_stack>>
       ELSE /\ Len(redo_stack) < MaxOps
            /\ redo_stack' = snapshot_push(redo_stack, history)
            /\ undo_stack' = undo_stack
            /\ history' = top(undo_stack).history
            /\ Returns("undo", <<>>, "True")
    /\ notified' = <<>>
    /\ UNCHANGED <<observers, operation>>

\* undo() that restores the snapshot before it saves the current history
undo_restore_first ==
    /\ IF undo_stack = <<>>
       THEN /\ Returns("undo", <<>>, "False")
            /\ UNCHANGED <<history, undo_stack, redo_stack>>
       ELSE /\ redo_stack' = snapshot_push(redo_stack, top(undo_stack).history)
            /\ undo_stack' = pop(undo_stack)
            /\ history' = top(undo_stack).history
            /\ Returns("undo", <<>>, "True")
    /\ notified' = <<>>
    /\ UNCHANGED <<observers, operation>>

\* Calculator.undo
undo ==
    /\ IF undo_stack = <<>>
       THEN /\ Returns("undo", <<>>, "False")
            /\ UNCHANGED <<history, undo_stack, redo_stack>>
       ELSE /\ redo_stack' = rebound(snapshot_push(redo_stack, history))
            /\ undo_stack' = rebound(pop(undo_stack))
            /\ history' = top(undo_stack).history
            /\ Returns("undo", <<>>, "True")
    /\ notified' = <<>>
    /\ UNCHANGED <<observers, operation>>

\* redo() that does not save the current history for a later undo
redo_without_snapshot ==
    /\ IF redo_stack = <<>>
       THEN /\ Returns("redo", <<>>, "False")
            /\ UNCHANGED <<history, undo_stack, redo_stack>>
       ELSE /\ undo_stack' = undo_stack
            /\ redo_stack' = pop(redo_stack)
            /\ history' = top(redo_stack).history
            /\ Returns("redo", <<>>, "True")
    /\ notified' = <<>>
    /\ UNCHANGED <<observers, operation>>

\* Calculator.redo
redo ==
    /\ IF redo_stack = <<>>
       THEN /\ Returns("redo", <<>>, "False")
            /\ UNCHANGED <<history, undo_stack, redo_stack>>
       ELSE /\ undo_stack' = rebound(snapshot_push(undo_stack, history))
            /\ redo_stack' = rebound(pop(redo_stack))
            /\ history' = top(redo_stack).history
            /\ Returns("redo", <<>>, "True")
    /\ notified' = <<>>
    /\ UNCHANGED <<observers, operation>>

\* a show_history that hands out the engine's own list
show_history_alias ==
    /\ shown' = [ref |-> "_history", items |-> history]
    /\ Returns("show_history", <<>>, "list")
    /\ notified' = <<>>
    /\ UNCHANGED calc

\* Calculator.show_history: list(self._history), a new list object
show_history ==
    /\ shown' = [ref |-> "copy", items |-> history]
    /\ Returns("show_history", <<>>, "list")
    /\ notified' = <<>>
    /\ UNCHANGED calc

\* what a caller does to the list it was handed
ListMutations == {"list.clear", "list.append", "list.remove"}

\* the contents of a list after clear(), append(x) or remove(list[0])
mutated(items, m) ==
    CASE m = "list.clear"  -> <<>>
      [] m = "list.append" -> Append(items, "x")
      [] m = "list.remove" -> Tail(items)

\* the caller mutates the list show_history returned: a change made through
\* a reference to _history is a change of _history, a change of a copy is not
mutate_shown(m) ==
    /\ shown.ref # "none"
    /\ m = "list.remove" => shown.items # <<>>
    /\ m = "list.append" => Len(shown.items) <= MaxOps
    /\ shown' = [shown EXCEPT !.items = mutated(shown.items, m)]
    /\ history' = IF shown.ref = "_history" THEN mutated(shown.items, m) ELSE history
    /\ undo_stack' = in_place(undo_stack, history')
    /\ redo_stack' = in_place(redo_stack, history')
    /\ Returns(m, <<>>, "None")
    /\ notified' = <<>>
    /\ UNCHANGED <<observers, operation>>

\* ------------------------------------------------------------------------
\* Persistence: save_history and load_history (pandas to_csv / read_csv)
\* ------------------------------------------------------------------------

\* float('nan'), which no operand typed into perform_operation can be: a
\* value below every number the model draws
nan == -1000000

\* the decimal digits of a natural number, as text
RECURSIVE digits_of(_)
digits_of(n) ==
    LET last == CHOOSE c \in Digits : DigitVal(c) = n % 10
    IN  IF n < 10 THEN <<last>> ELSE Append(digits_of(n \div 10), last)

\* DataFrame.to_csv of a float cell: repr(float), e.g. 8.0 -> "8.0",
\* -10.0 -> "-10.0", nan -> "" (the empty cell)
to_csv_float(x) ==
    IF x = nan THEN <<>>
    ELSE (IF x < 0 THEN <<"-">> ELSE <<>>) \o digits_of(Abs(x)) \o <<".", "0">>

\* the texts read_csv turns into NaN instead of keeping them as text: the
\* empty cell and the markers "NA" and "null"
na_values == { <<>>, <<"N", "A">>, <<"n", "u", "l", "l">> }

\* float(text): an optional sign, digits, and optionally a point followed by
\* digits; ValueError for any other text.  Only numerals whose fraction is
\* zero are drawn, so the value is that of the integer part.
float_of_text(t) ==
    LET signed == t # <<>> /\ Head(t) \in {"+", "-"}
        body   == IF signed THEN Tail(t) ELSE t
        points == {i \in 1..Len(body) : body[i] = "."}
        whole  == IF points = {} THEN body
                  ELSE SubSeq(body, 1, (CHOOSE i \in points : TRUE) - 1)
        frac   == IF points = {} THEN <<>>
                  ELSE SubSeq(body, (CHOOSE i \in points : TRUE) + 1, Len(body))
        wellFormed ==
            /\ Cardinality(points) <= 1
            /\ whole # <<>>
            /\ \A i \in 1..Len(whole) : whole[i] \in Digits
            /\ \A i \in 1..Len(frac) : frac[i] \in Digits
    IN  IF ~wellFormed THEN [exc |-> "ValueError", val |-> 0]
        ELSE [exc |-> "none",
              val |-> IF signed /\ Head(t) = "-"
                      THEN -DigitsValue(whole) ELSE DigitsValue(whole)]

\* float(row['operand1']) on a cell as read_csv delivers it: NaN for the
\* texts in na_values, the number for a numeral, and ValueError for any
\* other text (which read_csv keeps as a str)
row_float(cell) ==
    IF cell \in na_values THEN [exc |-> "none", val |-> nan]
    ELSE float_of_text(cell)

\* Calculation.result, computed when it is read: the named operation applied
\* to the two operands; arithmetic on NaN gives NaN
calculation_result(c) ==
    IF c.operand1 = nan \/ c.operand2 = nan
    THEN [exc |-> "none", msg |-> "", val |-> [kind |-> "nan", num |-> 0, den |-> 1]]
    ELSE execute(c.operation, [coef |-> c.operand1, exp |-> 0],
                              [coef |-> c.operand2, exp |-> 0])

\* a row that carries operand2 in the operand1 column and the reverse
csv_row_swapped(c) ==
    [operation |-> c.operation,
     operand1  |-> to_csv_float(c.operand2),
     operand2  |-> to_csv_float(c.operand1)]

\* the row save_history writes for a Calculation; its result column, which
\* load_history never reads, is not kept
csv_row(c) ==
    [operation |-> c.operation,
     operand1  |-> to_csv_float(c.operand1),
     operand2  |-> to_csv_float(c.operand2)]

\* Calculator.save_history: the records are built first, reading the result
\* of every entry; an entry whose result raises ends the call before the
\* file is written
save_history ==
    LET failing == {i \in 1..Len(history) : calculation_result(history[i]).exc # "none"}
        first   == CHOOSE i \in failing : \A j \in failing : i <= j
    IN  /\ IF failing # {}
           THEN /\ Raises("save_history", <<>>, calculation_result(history[first]).exc,
                          calculation_result(history[first]).msg)
                /\ file' = file
           ELSE /\ Returns("save_history", <<>>, "None")
                /\ file' = [exists |-> TRUE,
                            rows   |-> [i \in 1..Len(history) |-> csv_row(history[i])]]
        /\ notified' = <<>>
        /\ UNCHANGED calc

\* the try block of load_history for one row
load_row(row) ==
    LET a == row_float(row.operand1)
        b == row_float(row.operand2)
        made == create_calculation(row.operation, a.val, b.val)
    IN  IF a.exc # "none" THEN [exc |-> a.exc, calc |-> made.calc]
        ELSE IF b.exc # "none" THEN [exc |-> b.exc, calc |-> made.calc]
        ELSE made

\* the loop of load_history: rows raising ValueError or KeyError are skipped
RECURSIVE load_rows(_)
load_rows(rows) ==
    IF rows = <<>> THEN <<>>
    ELSE LET one == load_row(Head(rows))
         IN  IF one.exc \in {"ValueError", "KeyError"}
             THEN load_rows(Tail(rows))
             ELSE <<one.calc>> \o load_rows(Tail(rows))

\* a load_history that empties the history before looking for the file
load_history_clear_first ==
    /\ history' = IF file.exists THEN load_rows(file.rows) ELSE <<>>
    /\ Returns("load_history", <<>>, "None")
    /\ notified' = <<>>
    /\ UNCHANGED <<undo_stack, redo_stack, observers, operation>>

\* a load_history that records itself as a step to undo
load_history_recorded ==
    /\ history' = IF file.exists THEN load_rows(file.rows) ELSE history
    /\ undo_stack' = IF file.exists THEN snapshot_push(undo_stack, history) ELSE undo_stack
    /\ redo_stack' = IF file.exists THEN <<>> ELSE redo_stack
    /\ Returns("load_history", <<>>, "None")
    /\ notified' = <<>>
    /\ UNCHANGED <<observers, operation>>

\* Calculator.load_history: _history is cleared and filled in place
load_history ==
    /\ history' = IF file.exists THEN load_rows(file.rows) ELSE history
    /\ undo_stack' = in_place(undo_stack, history')
    /\ redo_stack' = in_place(redo_stack, history')
    /\ Returns("load_history", <<>>, "None")
    /\ notified' = <<>>
    /\ UNCHANGED <<observers, operation>>

\* ------------------------------------------------------------------------
\* Operation.execute called directly
\* ------------------------------------------------------------------------

\* Decimal(n) for an integer n
DecimalOfInt(n) == [coef |-> n, exp |-> 0]

\* OperationFactory.create_operation(op).execute(Decimal(a), Decimal(b))
execute_operation(op, a, b) ==
    LET ex == execute(op, DecimalOfInt(a), DecimalOfInt(b))
    IN  /\ call' = "execute"
        /\ args' = <<op, a, b>>
        /\ raised' = ex.exc
        /\ message' = ex.msg
        /\ ret' = IF ex.exc = "none" THEN "Decimal" ELSE "None"
        /\ result' = ex.val
        /\ notified' = <<>>
        /\ UNCHANGED calc

\* ------------------------------------------------------------------------
\* CalculationFactory and Calculation used directly
\* ------------------------------------------------------------------------

\* CalculationFactory.create_calculation(type, a, b), keeping the Calculation
create_and_keep(type, a, b) ==
    LET made == create_calculation(type, a, b)
    IN  /\ IF made.exc # "none"
           THEN /\ Raises("create_calculation", <<type, a, b>>, made.exc,
                          "Unsupported calculation type")
                /\ UNCHANGED <<created, reads>>
           ELSE /\ Returns("create_calculation", <<type, a, b>>, "Calculation")
                /\ created' = made.calc
                /\ reads' = 0
        /\ notified' = <<>>
        /\ UNCHANGED calc

\* a result that raises on its first read only
read_result_raise_once ==
    LET r == calculation_result(created)
    IN  /\ created.operation # None
        /\ reads < MaxReads
        /\ call' = "result"
        /\ args' = <<>>
        /\ raised' = IF reads = 0 THEN r.exc ELSE "none"
        /\ message' = IF reads = 0 THEN r.msg ELSE ""
        /\ ret' = IF r.exc = "none" THEN "Decimal" ELSE "None"
        /\ result' = r.val
        /\ reads' = reads + 1
        /\ notified' = <<>>
        /\ UNCHANGED <<created, calc>>

\* one read of calc.result: the computation is made at every read
read_result ==
    LET r == calculation_result(created)
    IN  /\ created.operation # None
        /\ reads < MaxReads
        /\ call' = "result"
        /\ args' = <<>>
        /\ raised' = r.exc
        /\ message' = r.msg
        /\ ret' = IF r.exc = "none" THEN "Decimal" ELSE "None"
        /\ result' = r.val
        /\ reads' = reads + 1
        /\ notified' = <<>>
        /\ UNCHANGED <<created, calc>>

\* a from_dict that reads the two operands in the other order
from_dict_swapped(data) ==
    create_calculation(data.operation, data.operand2, data.operand1)

\* Calculation.from_dict(data): the Calculation of data['operation'] on
\* float(data['operand1']) and float(data['operand2']); data['result'] is
\* not read, the result is computed again
from_dict(data) ==
    create_calculation(data.operation, data.operand1, data.operand2)

\* calc.to_dict() on the Calculation kept: reading the result may raise
calculation_to_dict ==
    LET r == calculation_result(created)
    IN  /\ created.operation # None
        /\ IF r.exc # "none"
           THEN /\ Raises("to_dict", <<>>, r.exc, r.msg)
                /\ mapping' = mapping
           ELSE /\ Returns("to_dict", <<>>, "dict")
                /\ mapping' = [operation |-> created.operation,
                               operand1  |-> created.operand1,
                               operand2  |-> created.operand2,
                               result    |-> r.val]
        /\ notified' = <<>>
        /\ UNCHANGED <<created, reads, calc>>

\* Calculation.from_dict(mapping), keeping the Calculation it returns
calculation_from_dict ==
    LET made == from_dict(mapping)
    IN  /\ mapping.operation # None
        /\ IF made.exc # "none"
           THEN /\ Raises("from_dict", <<mapping>>, made.exc, "Unsupported calculation type")
                /\ UNCHANGED <<created, reads>>
           ELSE /\ Returns("from_dict", <<mapping>>, "Calculation")
                /\ created' = made.calc
                /\ reads' = 0
        /\ notified' = <<>>
        /\ UNCHANGED <<mapping, calc>>

\* ------------------------------------------------------------------------
\* Specification: any sequence of calls on a new Calculator
\* ------------------------------------------------------------------------

AddObserver == \E o \in ObserverArgs : add_observer(o) /\ UNCHANGED <<extra, scenario, session>>

SetOperation == \E op \in OperationArgs : set_operation(op) /\ UNCHANGED <<extra, scenario, session>>

PerformOperation == \E p \in OperandPairs : perform_operation(p[1], p[2]) /\ UNCHANGED <<extra, scenario, session>>

ClearHistory == clear_history /\ UNCHANGED <<extra, scenario, session>>

Undo == undo /\ UNCHANGED <<extra, scenario, session>>

Redo == redo /\ UNCHANGED <<extra, scenario, session>>

Next ==
    \/ AddObserver
    \/ SetOperation
    \/ PerformOperation
    \/ ClearHistory
    \/ Undo
    \/ Redo

Spec == Init /\ [][Next]_vars

\* ------------------------------------------------------------------------
\* Specification: successful calculations, then k undos, then k redos
\* ------------------------------------------------------------------------

\* arm an operation while the history is being built
BuildSetOperation ==
    /\ phase = "build"
    /\ \E op \in Operations : set_operation(op)
    /\ UNCHANGED <<extra, scenario, session>>

\* a perform_operation call that succeeds
BuildPerform ==
    /\ phase = "build"
    /\ \E p \in OperandPairs : perform_operation(p[1], p[2])
    /\ raised' = "none"
    /\ UNCHANGED <<extra, scenario, session>>

\* one of the k undo() calls; the first one marks the history to come back to
UndoStep ==
    /\ phase \in {"build", "undo"}
    /\ undo_stack # <<>>
    /\ undo
    /\ phase' = "undo"
    /\ mark' = IF phase = "build" THEN history ELSE mark
    /\ undone' = undone + 1
    /\ redone' = redone
    /\ UNCHANGED <<extra, session>>

\* one of the k redo() calls
RedoStep ==
    /\ phase \in {"undo", "redo"}
    /\ redone < undone
    /\ redo
    /\ phase' = "redo"
    /\ redone' = redone + 1
    /\ UNCHANGED <<mark, undone>>
    /\ UNCHANGED <<extra, session>>

NextInverse ==
    \/ BuildSetOperation
    \/ BuildPerform
    \/ UndoStep
    \/ RedoStep

SpecInverse == Init /\ [][NextInverse]_vars

\* ------------------------------------------------------------------------
\* Specification: calls on a Calculator whose caller also reads the history
\* with show_history and changes the list it gets
\* ------------------------------------------------------------------------

\* the operations armed and the operand strings typed in the specifications
\* that follow
ArmedOperations == {"add", "divide"}

TypedPairs ==
    { << <<" ", "8">>, <<"0">> >>,
      << <<"-", "1", "0">>, <<"-", "2">> >> }

ArmOperation ==
    \E op \in ArmedOperations : set_operation(op) /\ UNCHANGED <<extra, scenario, session>>

PerformTyped ==
    \E p \in TypedPairs : perform_operation(p[1], p[2]) /\ UNCHANGED <<extra, scenario, session>>

ShowHistory == show_history /\ UNCHANGED <<extra, scenario, file, created, reads>>

MutateShown ==
    \E m \in ListMutations : mutate_shown(m) /\ UNCHANGED <<extra, scenario, file, created, reads>>

NextShow ==
    \/ ArmOperation
    \/ PerformTyped
    \/ ClearHistory
    \/ Undo
    \/ Redo
    \/ ShowHistory
    \/ MutateShown

SpecShow == Init /\ [][NextShow]_vars

\* ------------------------------------------------------------------------
\* Specification: calls on a Calculator with two kinds of observers
\* ------------------------------------------------------------------------

\* the observers registered: two kinds, so that their order can be told
RegisteredObservers == {"LoggingObserver", "CapturingObserver"}

\* operand strings of which one pair is rejected by validate_number and the
\* other fails in Division
NotifiedPairs ==
    { << <<" ", "8">>, <<"0">> >>,
      << <<"x">>, <<"3">> >> }

RegisterObserver ==
    \E o \in RegisteredObservers : add_observer(o) /\ UNCHANGED <<extra, scenario, session>>

\* perform_operation while the history holds fewer than MaxOps entries and
\* the undo stack fewer than MaxOps - 1 snapshots
PerformNotified ==
    /\ Len(history) < MaxOps
    /\ Len(undo_stack) < MaxOps - 1
    /\ \E p \in NotifiedPairs : perform_operation(p[1], p[2])
    /\ UNCHANGED <<extra, scenario, session>>

\* save_history; a save that succeeds is remembered with the history it wrote
SaveHistory ==
    /\ save_history
    /\ phase' = IF raised' = "none" THEN "saved" ELSE phase
    /\ mark' = IF raised' = "none" THEN history ELSE mark
    /\ UNCHANGED <<extra, undone, redone, shown, created, reads>>

LoadHistory == load_history /\ UNCHANGED <<extra, scenario, file, shown, created, reads>>

NextNotify ==
    \/ RegisterObserver
    \/ ArmOperation
    \/ PerformNotified
    \/ ClearHistory
    \/ Undo
    \/ Redo
    \/ SaveHistory
    \/ LoadHistory

SpecNotify == Init /\ [][NextNotify]_vars

\* ------------------------------------------------------------------------
\* Specification: calls on a Calculator whose history file is saved and
\* loaded by the engine and also written from outside
\* ------------------------------------------------------------------------

SavedPairs == { << <<"-", "1", "0">>, <<"-", "2">> >> }

\* a history file written from outside, as the rows under the header
\* operation,operand1,operand2,result: a valid row, a row of an unregistered
\* operation, a row whose operand is no numeral, a row whose operand is empty
WrittenFiles ==
    { << [operation |-> "add",    operand1 |-> <<"2">>, operand2 |-> <<"3">>],
         [operation |-> "bad_op", operand1 |-> <<"2">>, operand2 |-> <<"3">>],
         [operation |-> "add",    operand1 |-> <<"x">>, operand2 |-> <<"3">>],
         [operation |-> "add",    operand1 |-> <<>>,    operand2 |-> <<"3">>] >> }

\* perform_operation, bounded as in PerformNotified
PerformSaved ==
    /\ Len(history) < MaxOps
    /\ Len(undo_stack) < MaxOps - 1
    /\ \E p \in SavedPairs : perform_operation(p[1], p[2])
    /\ UNCHANGED <<extra, scenario, session>>

\* Path.write_text on the history file, by something other than the engine
WriteFile ==
    /\ \E rows \in WrittenFiles : file' = [exists |-> TRUE, rows |-> rows]
    /\ Returns("write_text", <<>>, "None")
    /\ notified' = <<>>
    /\ phase' = "written"
    /\ mark' = <<>>
    /\ UNCHANGED <<extra, calc, undone, redone, shown, created, reads>>

NextPersist ==
    \/ ArmOperation
    \/ PerformSaved
    \/ ClearHistory
    \/ Undo
    \/ Redo
    \/ SaveHistory
    \/ LoadHistory
    \/ WriteFile

SpecPersist == Init /\ [][NextPersist]_vars

\* ------------------------------------------------------------------------
\* Specification: calculations with every operation, on operands whose
\* quotient is rounded, whose quotient is a fraction, and whose power
\* exceeds the range of a float
\* ------------------------------------------------------------------------

ArithmeticPairs ==
    { << <<"1", "0">>, <<"3">> >>,
      << <<"-", "1", "0">>, <<"4">> >>,
      << <<"1", "0">>, <<"9", "9", "9">> >> }

ArmArithmetic ==
    \E op \in Operations : set_operation(op) /\ UNCHANGED <<extra, scenario, session>>

\* perform_operation while the history holds fewer than MaxOps entries
PerformArithmetic ==
    /\ Len(history) < MaxOps
    /\ \E p \in ArithmeticPairs : perform_operation(p[1], p[2])
    /\ UNCHANGED <<extra, scenario, session>>

NextArithmetic ==
    \/ ArmArithmetic
    \/ PerformArithmetic

SpecArithmetic == Init /\ [][NextArithmetic]_vars

\* ------------------------------------------------------------------------
\* Specification: every operation executed on every pair of small integers
\* ------------------------------------------------------------------------

ExecuteOperation ==
    /\ \E op \in Operations, a, b \in -MaxOperand..MaxOperand : execute_operation(op, a, b)
    /\ UNCHANGED <<extra, scenario, session>>

NextOperands == ExecuteOperation

SpecOperands == Init /\ [][NextOperands]_vars

\* ------------------------------------------------------------------------
\* Specification: Calculations of every type built on small integers, and
\* their result read several times
\* ------------------------------------------------------------------------

\* one Calculation is built, unless the factory refuses its type
CreateCalculation ==
    /\ created.operation = None
    /\ \E type \in CalculationTypes \cup {"unknown"}, a, b \in -MaxOperand..MaxOperand :
           create_and_keep(type, a, b)
    /\ UNCHANGED <<extra, scenario, shown, file>>

ReadResult == read_result /\ UNCHANGED <<extra, scenario, shown, file>>

ToDict == calculation_to_dict /\ UNCHANGED <<registries, repl, scenario, shown, file>>

FromDict == calculation_from_dict /\ UNCHANGED <<registries, repl, scenario, shown, file>>

NextCalculation ==
    \/ CreateCalculation
    \/ ReadResult
    \/ ToDict
    \/ FromDict
    \/ WriteFile
    \/ LoadHistory

SpecCalculation == Init /\ [][NextCalculation]_vars

\* ------------------------------------------------------------------------
\* The two registries: OperationFactory and CalculationFactory
\* ------------------------------------------------------------------------

UpperLetters ==
    <<"A", "B", "C", "D", "E", "F", "G", "H", "I", "J", "K", "L", "M",
      "N", "O", "P", "Q", "R", "S", "T", "U", "V", "W", "X", "Y", "Z">>

LowerLetters ==
    <<"a", "b", "c", "d", "e", "f", "g", "h", "i", "j", "k", "l", "m",
      "n", "o", "p", "q", "r", "s", "t", "u", "v", "w", "x", "y", "z">>

\* str.lower() of one character
lower_char(c) ==
    IF \E i \in DOMAIN UpperLetters : UpperLetters[i] = c
    THEN LowerLetters[CHOOSE i \in DOMAIN UpperLetters : UpperLetters[i] = c]
    ELSE c

\* str.lower(): a text is a sequence of characters
lower(s) == [i \in DOMAIN s |-> lower_char(s[i])]

RECURSIVE text(_)
\* the text as one string, the key of a dict
text(s) == IF s = <<>> THEN "" ELSE Head(s) \o text(Tail(s))

\* the name attribute of each operation class
name_of ==
    [Addition |-> "add", Subtraction |-> "subtract", Multiplication |-> "multiply",
     Division |-> "divide", Power |-> "power", Root |-> "root",
     Modulus |-> "modulus"]

\* the classes that inherit from Operation; Modulus is one defined by a caller
OperationSubclasses ==
    {"Addition", "Subtraction", "Multiplication", "Division", "Power", "Root",
     "Modulus"}

\* issubclass(operation_class, Operation)
issubclass_Operation(operation_class) == operation_class \in OperationSubclasses

\* registry[key] = value
setitem(registry, key, value) ==
    [k \in DOMAIN registry \cup {key} |-> IF k = key THEN value ELSE registry[k]]

\* a registration that keeps the class a name already has
register_operation_keep_first(name, operation_class) ==
    IF ~ issubclass_Operation(operation_class)
    THEN /\ Raises("register_operation", <<name, operation_class>>, "TypeError",
                   "Operation class must inherit from Operation")
         /\ operations' = operations
    ELSE /\ Returns("register_operation", <<name, operation_class>>, "None")
         /\ operations' = IF text(lower(name)) \in DOMAIN operations
                          THEN operations
                          ELSE setitem(operations, text(lower(name)), operation_class)

\* OperationFactory.register_operation(name, operation_class)
register_operation(name, operation_class) ==
    IF ~ issubclass_Operation(operation_class)
    THEN /\ Raises("register_operation", <<name, operation_class>>, "TypeError",
                   "Operation class must inherit from Operation")
         /\ operations' = operations
    ELSE /\ Returns("register_operation", <<name, operation_class>>, "None")
         /\ operations' = setitem(operations, text(lower(name)), operation_class)

\* a lookup of the name as it was written
create_operation_case_sensitive(operation_type) ==
    /\ IF text(operation_type) \notin DOMAIN operations
       THEN Raises("create_operation", <<operation_type>>, "ValueError",
                   "Unknown operation: " \o text(operation_type))
       ELSE Returns("create_operation", <<operation_type>>,
                    operations[text(operation_type)])
    /\ operations' = operations

\* OperationFactory.create_operation(operation_type): ret is the class of the
\* instance returned
create_operation(operation_type) ==
    /\ IF text(lower(operation_type)) \notin DOMAIN operations
       THEN Raises("create_operation", <<operation_type>>, "ValueError",
                   "Unknown operation: " \o text(operation_type))
       ELSE Returns("create_operation", <<operation_type>>,
                    operations[text(lower(operation_type))])
    /\ operations' = operations

\* CalculationFactory.register_calculation(calculation_type)(calculation_class)
register_calculation(calculation_type, calculation_class) ==
    IF calculation_type \in DOMAIN calculations
    THEN /\ Raises("register_calculation", <<calculation_type, calculation_class>>,
                   "ValueError", "already registered")
         /\ calculations' = calculations
    ELSE /\ Returns("register_calculation", <<calculation_type, calculation_class>>,
                    calculation_class)
         /\ calculations' = setitem(calculations, calculation_type, calculation_class)

\* the names the factory is asked for
OperationNames ==
    {<<"a", "d", "d">>, <<"A", "d", "d">>, <<"A", "D", "D">>,
     <<"s", "u", "b", "t", "r", "a", "c", "t">>,
     <<"M", "u", "l", "t", "i", "p", "l", "y">>,
     <<"d", "i", "v", "i", "d", "e">>,
     <<"P", "O", "W", "E", "R">>,
     <<"r", "o", "o", "t">>, <<"R", "o", "o", "t">>,
     <<"m", "o", "d">>, <<"M", "o", "d">>,
     <<"+">>, <<" ", "a", "d", "d">>, <<>>}

\* the names classes are registered under
RegisteredNames ==
    {<<"a", "d", "d">>, <<"A", "d", "d">>, <<"m", "o", "d">>, <<"M", "O", "D">>}

\* the classes offered to register_operation: two Operations and one that is not
RegisteredClasses == {"Modulus", "Subtraction", "str"}

CreateOperation ==
    /\ \E name \in OperationNames : create_operation(name)
    /\ notified' = <<>>
    /\ UNCHANGED <<mapping, calculations, repl, calc, scenario, session>>

RegisterOperation ==
    /\ \E name \in RegisteredNames, class \in RegisteredClasses :
           register_operation(name, class)
    /\ notified' = <<>>
    /\ UNCHANGED <<mapping, calculations, repl, calc, scenario, session>>

RegisterCalculation ==
    /\ \E type \in {"add", "root", "modulus"},
          class \in {"AddCalculation", "ModulusCalculation"} :
           register_calculation(type, class)
    /\ notified' = <<>>
    /\ UNCHANGED <<mapping, operations, repl, calc, scenario, session>>

NextRegistry ==
    \/ CreateOperation
    \/ RegisterOperation
    \/ RegisterCalculation

\* ------------------------------------------------------------------------
\* Specification: every call that changes the history or returns it, on a
\* Calculator whose stacks hold snapshots
\* ------------------------------------------------------------------------

NextSnapshots ==
    \/ ArmOperation
    \/ PerformSaved
    \/ ClearHistory
    \/ Undo
    \/ Redo
    \/ LoadHistory
    \/ WriteFile
    \/ ShowHistory
    \/ MutateShown

SpecSnapshots == Init /\ [][NextSnapshots]_vars

SpecRegistry == Init /\ [][NextRegistry]_vars

\* ------------------------------------------------------------------------
\* Specification: a Calculator that loads a history file whose rows are all
\* well formed, one of them a division by zero
\* ------------------------------------------------------------------------

\* the rows add,2.0,3.0 and divide,8.0,0.0 under the header
DomainRows ==
    << [operation |-> "add", operand1 |-> <<"2", ".", "0">>, operand2 |-> <<"3", ".", "0">>],
       [operation |-> "divide", operand1 |-> <<"8", ".", "0">>, operand2 |-> <<"0", ".", "0">>] >>

\* Path.write_text on the history file, by something other than the engine
WriteDomainRows ==
    /\ file' = [exists |-> TRUE, rows |-> DomainRows]
    /\ Returns("write_text", <<>>, "None")
    /\ notified' = <<>>
    /\ phase' = "written"
    /\ mark' = <<>>
    /\ UNCHANGED <<extra, calc, undone, redone, shown, created, reads>>

NextLoaded ==
    \/ ArmOperation
    \/ PerformSaved
    \/ Undo
    \/ Redo
    \/ SaveHistory
    \/ LoadHistory
    \/ WriteDomainRows

SpecLoaded == Init /\ [][NextLoaded]_vars

\* ------------------------------------------------------------------------
\* Specification: a Calculator armed with operations made by the factory,
\* among them one a caller registered and CalculationFactory does not know
\* ------------------------------------------------------------------------

\* OperationFactory.register_operation('modulus', Modulus)
RegisterModulus ==
    /\ register_operation(<<"m", "o", "d", "u", "l", "u", "s">>, "Modulus")
    /\ notified' = <<>>
    /\ UNCHANGED <<mapping, calculations, repl, calc, scenario, session>>

\* calc.set_operation(OperationFactory.create_operation(name))
ArmCreated ==
    /\ \E name \in {"add", "divide", "modulus"} :
           /\ name \in DOMAIN operations
           /\ set_operation(name_of[operations[name]])
    /\ UNCHANGED <<extra, scenario, session>>

\* the operand strings of these calls: 10 and 3, 10 and 0
CreatedPairs ==
    { << <<"1", "0">>, <<"3">> >>,
      << <<"1", "0">>, <<"0">> >> }

\* perform_operation; the modulus is taken by 3 only
PerformCreated ==
    /\ Len(history) < MaxOps
    /\ operation = "modulus" => Len(undo_stack) < MaxOps - 1
    /\ \E p \in CreatedPairs :
           /\ operation = "modulus" => p[2] = <<"3">>
           /\ perform_operation(p[1], p[2])
    /\ UNCHANGED <<extra, scenario, session>>

NextCreated ==
    \/ RegisterModulus
    \/ ArmCreated
    \/ PerformCreated
    \/ Undo
    \/ Redo
    \/ ClearHistory

SpecCreated == Init /\ [][NextCreated]_vars

\* ------------------------------------------------------------------------
\* The REPL (app/calculator_repl.py)
\* ------------------------------------------------------------------------

\* a REPL that reads '+' as subtract and '-' as add
OPERATOR_MAP_swapped ==
    [s \in {"+", "-", "*", "/"} |->
        CASE s = "+" -> "subtract" [] s = "-" -> "add"
          [] s = "*" -> "multiply" [] s = "/" -> "divide"]

OPERATOR_MAP ==
    [s \in {"+", "-", "*", "/"} |->
        CASE s = "+" -> "add" [] s = "-" -> "subtract"
          [] s = "*" -> "multiply" [] s = "/" -> "divide"]

\* n zeros, as text
zeros(n) == [i \in 1..n |-> "0"]

\* the number of trailing zeros of a nonzero integer, at most limit
RECURSIVE trailing_zeros(_, _)
trailing_zeros(n, limit) ==
    IF limit <= 0 \/ n % 10 # 0 THEN 0 ELSE 1 + trailing_zeros(n \div 10, limit - 1)

\* a str(Decimal) that writes the coefficient and leaves the exponent out
str_coefficient(d) ==
    (IF d.coef < 0 THEN <<"-">> ELSE <<>>) \o digits_of(Abs(d.coef))

\* str(Decimal): plain notation when the exponent is not positive,
\* scientific notation with one digit before the point otherwise
str_decimal(d) ==
    LET digits     == digits_of(Abs(d.coef))
        leftdigits == d.exp + Len(digits)
        dotplace   == IF d.exp <= 0 /\ leftdigits > -6 THEN leftdigits ELSE 1
        intpart    == IF dotplace <= 0 THEN <<"0">>
                      ELSE IF dotplace >= Len(digits)
                           THEN digits \o zeros(dotplace - Len(digits))
                           ELSE SubSeq(digits, 1, dotplace)
        fracpart   == IF dotplace <= 0 THEN <<".">> \o zeros(-dotplace) \o digits
                      ELSE IF dotplace >= Len(digits) THEN <<>>
                           ELSE <<".">> \o SubSeq(digits, dotplace + 1, Len(digits))
        shift      == leftdigits - dotplace
        exppart    == IF shift = 0 THEN <<>>
                      ELSE <<"E", IF shift < 0 THEN "-" ELSE "+">> \o digits_of(Abs(shift))
    IN  (IF d.coef < 0 THEN <<"-">> ELSE <<>>) \o intpart \o fracpart \o exppart

\* _format_result of a Decimal that is a whole number: str(int(value))
format_result(d) ==
    (IF Value(d) < 0 THEN <<"-">> ELSE <<>>) \o digits_of(Abs(Value(d)))

\* the Decimal an operation returns for normalized operands a and b when its
\* value is the whole number v: sums and differences take the smaller
\* exponent, products add the exponents, an exact quotient keeps trailing
\* zeros out of the coefficient up to the difference of the exponents, and
\* Decimal(float) of a whole float has exponent 0
result_decimal(op, a, b, v) ==
    LET lower_exp == IF a.exp < b.exp THEN a.exp ELSE b.exp
        ideal     == a.exp - b.exp
        e == CASE op \in {"add", "subtract"} -> lower_exp
               [] op = "multiply" -> a.exp + b.exp
               [] op = "divide" -> IF v = 0 THEN ideal ELSE trailing_zeros(v, ideal)
               [] OTHER -> 0
    IN  [coef |-> IF e >= 0 THEN v \div Pow10(e) ELSE v * Pow10(-e), exp |-> e]

\* Decimal(str(calculation.result)) for a result that is a whole float
restored_result(c) ==
    DecimalOf(to_csv_float(calculation_result(c).val.num)).num

\* str.split(): the words between runs of blanks
RECURSIVE split(_)
split(s) ==
    LET t      == lstrip(s)
        blanks == {i \in 1..Len(t) : t[i] \in Whitespace}
        stop   == IF blanks = {} THEN Len(t) + 1
                  ELSE CHOOSE i \in blanks : \A j \in blanks : i <= j
    IN  IF t = <<>> THEN <<>>
        ELSE <<SubSeq(t, 1, stop - 1)>> \o split(SubSeq(t, stop + 1, Len(t)))

\* str.replace(' ', '')
replace_blanks(s) == SelectSeq(s, LAMBDA c : c # " ")

\* the length of the run of digits a text starts with
RECURSIVE digit_run(_)
digit_run(s) ==
    IF s # <<>> /\ Head(s) \in Digits THEN 1 + digit_run(Tail(s)) ELSE 0

\* the longest prefix of s matching [+-]?\s*\d+(?:\.\d+)? and what follows it
match_number(s) ==
    LET signed == s # <<>> /\ Head(s) \in {"+", "-"}
        unsigned == lstrip(IF signed THEN Tail(s) ELSE s)
        whole  == digit_run(unsigned)
        after  == SubSeq(unsigned, whole + 1, Len(unsigned))
        frac   == IF after # <<>> /\ Head(after) = "." /\ digit_run(Tail(after)) > 0
                  THEN 1 + digit_run(Tail(after)) ELSE 0
        rest   == SubSeq(after, frac + 1, Len(after))
    IN  [ok |-> whole > 0, token |-> SubSeq(s, 1, Len(s) - Len(rest)), rest |-> rest]

\* InputValidator.validate_expression: EXPRESSION_PATTERN.fullmatch(raw), the
\* alternative 'a op b' tried before the alternative 'op b'
validate_expression(raw) ==
    LET first    == match_number(raw)
        at_op    == lstrip(first.rest)
        second   == match_number(lstrip(Tail(at_op)))
        full     == /\ first.ok
                    /\ at_op # <<>> /\ Head(at_op) \in DOMAIN OPERATOR_MAP
                    /\ second.ok /\ second.rest = <<>>
        operand  == match_number(lstrip(Tail(raw)))
        continuation ==
                    /\ raw # <<>> /\ Head(raw) \in DOMAIN OPERATOR_MAP
                    /\ operand.ok /\ operand.rest = <<>>
    IN  IF full
        THEN [kind |-> "full", a |-> first.token, op |-> Head(at_op), b |-> second.token]
        ELSE IF continuation
        THEN [kind |-> "continuation", a |-> <<>>, op |-> Head(raw), b |-> operand.token]
        ELSE [kind |-> "none", a |-> <<>>, op |-> "", b |-> <<>>]

\* AutoSaveObserver.update with auto_save on: save_history after a recorded
\* calculation
auto_saved(h) ==
    [exists |-> TRUE, rows |-> [i \in 1..Len(h) |-> csv_row(h[i])]]

\* the history the AutoSaveObserver finds in the Calculator it was built with
auto_save_view(updates) ==
    updates[CHOOSE i \in 1..Len(updates) : updates[i].observer = "AutoSaveObserver"].seen.history

\* lines 67-77: the Calculator is made and the two observers are added
repl_construct ==
    /\ running = NotStarted
    /\ running' = AtPrompt
    /\ observers' = <<"LoggingObserver", "AutoSaveObserver">>
    /\ repl_result' = NoResult
    /\ printed' = "help"
    /\ UNCHANGED <<history, undo_stack, redo_stack, operation, outcome, file>>

\* input() raising EOFError or KeyboardInterrupt
repl_end_of_input ==
    /\ running.at = "prompt"
    /\ running' = [AtPrompt EXCEPT !.at = "exited"]
    /\ printed' = "Exiting"
    /\ UNCHANGED <<calc, outcome, file, repl_result>>

\* the result to show after undo, redo or load: that of the last entry of
\* the history; reading it may raise
repl_restore(line, succeeded, guarded, failure) ==
    LET h    == history'
        last == h[Len(h)]
        read == calculation_result(last)
    IN  IF ~succeeded
        THEN /\ repl_result' = repl_result
             /\ running' = Answered(line)
             /\ printed' = failure
        ELSE IF h = <<>>
        THEN /\ repl_result' = NoResult
             /\ running' = Answered(line)
             /\ printed' = "done"
        ELSE IF read.exc = "none"
        THEN /\ read.val.kind = "exact" /\ read.val.den = 1
             /\ repl_result' = Some(restored_result(last))
             /\ running' = Answered(line)
             /\ printed' = "done"
        ELSE /\ repl_result' = repl_result
             /\ running' = IF guarded THEN Answered(line)
                           ELSE [Answered(line) EXCEPT !.at = "crashed"]
             /\ printed' = IF guarded THEN "Error loading history: " \o read.msg
                           ELSE "Traceback"

\* one turn of the loop for a line that does not calculate: lines 82-157
\* and 174-189
repl_command(raw) ==
    LET line  == strip(raw)
        cmd   == text(lower(line))
        match == validate_expression(line)
    IN  /\ running.at = "prompt"
        /\ CASE line = <<>> ->
                   /\ running' = Answered(line)
                   /\ UNCHANGED <<calc, outcome, file, repl_result, printed>>
             [] cmd \in {"q", "quit"} ->
                   /\ save_history
                   /\ running' = [Answered(line) EXCEPT !.at = "exited"]
                   /\ printed' = "Exiting"
                   /\ repl_result' = repl_result
             [] cmd \in {"h", "help"} ->
                   /\ printed' = "help"
                   /\ running' = Answered(line)
                   /\ UNCHANGED <<calc, outcome, file, repl_result>>
             [] cmd \in {"c", "clear"} ->
                   /\ clear_history
                   /\ repl_result' = NoResult
                   /\ printed' = "Cleared."
                   /\ running' = Answered(line)
                   /\ file' = file
             [] cmd = "=" ->
                   /\ printed' = IF repl_result.is = "None" THEN "No result yet."
                                 ELSE "= " \o text(format_result(repl_result))
                   /\ running' = Answered(line)
                   /\ UNCHANGED <<calc, outcome, file, repl_result>>
             [] cmd = "undo" ->
                   /\ undo
                   /\ repl_restore(line, ret' = "True", FALSE, "Nothing to undo.")
                   /\ file' = file
             [] cmd = "redo" ->
                   /\ redo
                   /\ repl_restore(line, ret' = "True", FALSE, "Nothing to redo.")
                   /\ file' = file
             [] cmd = "save" ->
                   /\ save_history
                   /\ printed' = IF raised' = "none" THEN "History saved."
                                 ELSE "Error saving history: " \o message'
                   /\ running' = Answered(line)
                   /\ repl_result' = repl_result
             [] cmd = "load" ->
                   /\ load_history
                   /\ repl_restore(line, TRUE, TRUE, "")
                   /\ file' = file
             [] OTHER ->
                   /\ ~ (Len(split(line)) = 3
                           /\ text(lower(split(line)[1])) \in {"power", "root"})
                   /\ \/ match.kind = "none"
                         /\ printed' = "Error: Unrecognised input. Type 'h' for help."
                      \/ match.kind = "continuation" /\ repl_result.is = "None"
                         /\ printed' = "Error: No previous result. Start with a full expression, e.g. '1 + 2'."
                   /\ running' = Answered(line)
                   /\ UNCHANGED <<calc, outcome, file, repl_result>>

\* whether the line is one of those repl_command answers
is_command(raw) ==
    LET line == strip(raw)
    IN  \/ line = <<>>
        \/ text(lower(line)) \in {"q", "quit", "h", "help", "c", "clear", "=", "history",
                                  "hist", "undo", "redo", "save", "load"}

\* one turn of the loop for a line that calculates, up to the call of
\* set_operation: lines 161-165 and 174-194
repl_arm(raw) ==
    LET line    == strip(raw)
        parts   == split(line)
        keyword == Len(parts) = 3 /\ text(lower(parts[1])) \in {"power", "root"}
        match   == validate_expression(line)
        name    == IF keyword THEN text(lower(parts[1])) ELSE OPERATOR_MAP[match.op]
    IN  /\ running.at = "prompt"
        /\ ~ is_command(raw)
        /\ \/ keyword
           \/ match.kind = "full"
           \/ match.kind = "continuation" /\ repl_result.is = "Decimal"
        /\ set_operation(name_of[operations[name]])
        /\ running' = [at     |-> "armed",
                       line   |-> line,
                       branch |-> IF keyword THEN "keyword" ELSE match.kind,
                       a      |-> IF keyword THEN parts[2]
                                  ELSE IF match.kind = "full" THEN replace_blanks(match.a)
                                  ELSE str_decimal(repl_result),
                       b      |-> IF keyword THEN parts[3] ELSE replace_blanks(match.b)]
        /\ UNCHANGED <<file, repl_result, printed>>

\* the rest of that turn: perform_operation, the result printed or the
\* exception handled: lines 166-170 and 195-201
repl_perform ==
    LET num_a == validate_number(running.a).num
        num_b == validate_number(running.b).num
    IN  /\ running.at = "armed"
        /\ perform_operation(running.a, running.b)
        /\ IF raised' = "none"
           THEN /\ result'.kind = "exact" /\ result'.den = 1
                /\ repl_result' = Some(result_decimal(operation, num_a, num_b, result'.num))
                /\ printed' = text(format_result(repl_result'))
                /\ running' = Answered(running.line)
                /\ file' = auto_saved(auto_save_view(notified'))
           ELSE IF raised' \in {"ValidationError", "OperationError"}
           THEN /\ printed' = "Error: " \o message'
                /\ running' = Answered(running.line)
                /\ UNCHANGED <<file, repl_result>>
           ELSE IF running.branch = "keyword"
           THEN /\ printed' = "Traceback"
                /\ running' = [Answered(running.line) EXCEPT !.at = "crashed"]
                /\ UNCHANGED <<file, repl_result>>
           ELSE /\ printed' = "Unexpected error: " \o message'
                /\ running' = Answered(running.line)
                /\ UNCHANGED <<file, repl_result>>

\* the lines typed: the four infix operators, the two keywords in either
\* case, operands that fail, and some of the commands
ReplLines ==
    { <<"2", "+", "3">>,
      <<"8", "-", "-", "2">>,
      <<"-", " ", "5", " ", "*", " ", "1", "0">>,
      <<" ", "8", " ", "/", " ", "2">>,
      <<"/", "0">>,
      <<"2", " ", "+", " ", "2", "0", "0", "0">>,
      <<"P", "o", "w", "e", "r", " ", "2", " ", " ", "3">>,
      <<"p", "o", "w", "e", "r", " ", "1", "0", " ", "9", "9", "9">>,
      <<"r", "o", "o", "t", " ", "-", "4", " ", "2">>,
      <<"a", "b", "c">>,
      <<>>,
      <<"=">>, <<"h">>, <<"u", "n", "d", "o">>, <<"q", "u", "i", "t">> }

\* the frame of every step of the REPL
ReplFrame == UNCHANGED <<mapping, registries, scenario, shown, created, reads, legacy>>

ReplConstruct == repl_construct /\ ReplFrame

ReplEndOfInput == repl_end_of_input /\ ReplFrame

ReplCommand == (\E raw \in ReplLines : repl_command(raw)) /\ ReplFrame

ReplArm ==
    /\ Len(history) < MaxOps - 1
    /\ Len(undo_stack) < MaxOps - 1
    /\ \E raw \in ReplLines : repl_arm(raw)
    /\ ReplFrame

ReplPerform == repl_perform /\ ReplFrame

NextRepl ==
    \/ ReplConstruct
    \/ ReplEndOfInput
    \/ ReplCommand
    \/ ReplArm
    \/ ReplPerform

SpecRepl == Init /\ [][NextRepl]_vars

\* ------------------------------------------------------------------------
\* Specification: a REPL session of expressions continued from the running
\* result, with undo, redo, save, load and clear between them
\* ------------------------------------------------------------------------

ContinuedLines ==
    { <<"-", " ", "5", " ", "*", " ", "1", "0">>,
      <<"+", " ", "5">>,
      <<"/", "0">>,
      <<"U", "n", "d", "o">>, <<"r", "e", "d", "o">>,
      <<"l", "o", "a", "d">>, <<"c">> }

ContinuedCommand == (\E raw \in ContinuedLines : repl_command(raw)) /\ ReplFrame

ContinuedArm ==
    /\ Len(history) < MaxOps
    /\ Len(undo_stack) < MaxOps
    /\ \E raw \in ContinuedLines : repl_arm(raw)
    /\ ReplFrame

NextContinued ==
    \/ ReplConstruct
    \/ ContinuedCommand
    \/ ContinuedArm
    \/ ReplPerform

SpecContinued == Init /\ [][NextContinued]_vars

\* ------------------------------------------------------------------------
\* Specification: a REPL session beside a history file that something else
\* wrote, its last row a division by zero
\* ------------------------------------------------------------------------

LoadedLines ==
    { <<"1", " ", "+", " ", "2">>,
      <<"+", " ", "5">>,
      <<"l", "o", "a", "d">>, <<"u", "n", "d", "o">>, <<"r", "e", "d", "o">>,
      <<"c", "l", "e", "a", "r">>, <<"=">> }

LoadedCommand == (\E raw \in LoadedLines : repl_command(raw)) /\ ReplFrame

LoadedArm ==
    /\ Len(history) < MaxOps
    /\ Len(undo_stack) < MaxOps
    /\ \E raw \in LoadedLines : repl_arm(raw)
    /\ ReplFrame

\* the history file rewritten while the REPL waits at its prompt
ReplaceFile ==
    /\ running.at = "prompt"
    /\ file' = [exists |-> TRUE, rows |-> DomainRows]
    /\ UNCHANGED <<calc, outcome, scenario, shown, created, reads, extra>>

NextReplLoaded ==
    \/ ReplConstruct
    \/ ReplaceFile
    \/ LoadedCommand
    \/ LoadedArm
    \/ ReplPerform

SpecReplLoaded == Init /\ [][NextReplLoaded]_vars

\* ------------------------------------------------------------------------
\* The legacy REPL (app/calculator/calculator.py, app/operations/operations.py)
\* ------------------------------------------------------------------------

\* the float n/d, d # 0
fraction(n, d) ==
    LET g == GCD(Abs(n), Abs(d))
    IN  [is |-> "float", num |-> (IF d < 0 THEN -n ELSE n) \div g, den |-> Abs(d) \div g]

\* parse_number: float() of the text without its spaces; float() strips
\* the blanks at both ends and refuses any left inside
parse_number(s) ==
    LET parsed == float_of_text(strip(replace_blanks(s)))
    IN  IF parsed.exc # "none"
        THEN [exc |-> "ValueError", msg |-> "Not a valid number: '" \o text(s) \o "'",
              val |-> NoFloat]
        ELSE [exc |-> "none", msg |-> "", val |-> fraction(parsed.val, 1)]

\* operations.add, operations.subtract, operations.multiply
operations_add(a, b) == fraction(a.num * b.den + b.num * a.den, a.den * b.den)

operations_subtract(a, b) == fraction(a.num * b.den - b.num * a.den, a.den * b.den)

operations_multiply(a, b) == fraction(a.num * b.num, a.den * b.den)

\* operations.divide
operations_divide(a, b) ==
    IF b.num = 0
    THEN [exc |-> "ValueError", msg |-> "Cannot divide by zero", val |-> NoFloat]
    ELSE [exc |-> "none", msg |-> "", val |-> fraction(a.num * b.den, a.den * b.num)]

\* Calculation.execute of the legacy calculation classes: the method of
\* operations that carries the name of the calculation's type
legacy_execute(c) ==
    CASE c.operation = "add" ->
             [exc |-> "none", msg |-> "", val |-> operations_add(c.operand1, c.operand2)]
      [] c.operation = "subtract" ->
             [exc |-> "none", msg |-> "", val |-> operations_subtract(c.operand1, c.operand2)]
      [] c.operation = "multiply" ->
             [exc |-> "none", msg |-> "", val |-> operations_multiply(c.operand1, c.operand2)]
      [] OTHER -> operations_divide(c.operand1, c.operand2)

\* the calculation appended to history before it is executed
legacy_commit_append_first(state, calculation, executed) ==
    [state EXCEPT !.history = Append(@, calculation),
                  !.result = IF executed.exc = "none" THEN executed.val ELSE @]

\* lines 134-138: result is assigned and the calculation appended once
\* execute has returned; an exception leaves both as they were
legacy_commit(state, calculation, executed) ==
    IF executed.exc = "none"
    THEN [state EXCEPT !.result = executed.val, !.history = Append(@, calculation)]
    ELSE state

\* lines 118-145: a line the pattern matched
legacy_calculate(state, match) ==
    LET full  == match.kind = "full"
        first == IF full THEN parse_number(match.a)
                 ELSE [exc |-> "none", msg |-> "", val |-> state.result]
        second == parse_number(match.b)
        calculation == [operation |-> OPERATOR_MAP[match.op],
                        operand1 |-> first.val, operand2 |-> second.val]
        executed == legacy_execute(calculation)
        done == legacy_commit(state, calculation, executed)
    IN  IF first.exc # "none"
        THEN [state EXCEPT !.printed = "Error: " \o first.msg]
        ELSE IF ~full /\ state.result = NoFloat
        THEN [state EXCEPT !.printed =
                 "Error: No previous result. Start with a full expression, e.g. '1 + 2'."]
        ELSE IF second.exc # "none"
        THEN [state EXCEPT !.printed = "Error: " \o second.msg]
        ELSE [done EXCEPT !.printed = IF executed.exc = "none" THEN "value"
                                      ELSE "Error: " \o executed.msg]

\* one turn of the loop of calculator(): lines 64-145
calculator_line(raw) ==
    LET line  == strip(raw)
        cmd   == text(lower(line))
        state == [legacy EXCEPT !.line = line, !.printed = ""]
    IN  /\ legacy.at = "prompt"
        /\ legacy' =
             CASE line = <<>> -> state
               [] cmd \in {"q", "quit"} -> [state EXCEPT !.at = "exited", !.printed = "Exiting"]
               [] cmd \in {"h", "help"} -> [state EXCEPT !.printed = "help"]
               [] cmd \in {"c", "clear"} ->
                      [state EXCEPT !.result = NoFloat, !.history = <<>>,
                                    !.printed = "Cleared."]
               [] cmd = "=" ->
                      [state EXCEPT !.printed = IF legacy.result = NoFloat
                                                THEN "No result yet." ELSE "= value"]
               [] cmd \in {"history", "hist"} -> [state EXCEPT !.printed = "history"]
               [] OTHER ->
                      IF validate_expression(line).kind = "none"
                      THEN [state EXCEPT !.printed =
                               "Error: Unrecognized input. Type 'h' for help."]
                      ELSE legacy_calculate(state, validate_expression(line))

\* input() raising EOFError or KeyboardInterrupt: lines 67-71
calculator_end_of_input ==
    /\ legacy.at = "prompt"
    /\ legacy' = [legacy EXCEPT !.at = "exited", !.line = <<>>, !.printed = "Exiting"]

\* ------------------------------------------------------------------------
\* Specification: a session of the legacy REPL
\* ------------------------------------------------------------------------

\* the lines typed: expressions and continuations that succeed, divisions
\* by zero, a signed operand with a tab after its sign, and commands
LegacyLines ==
    { <<"1", " ", "+", " ", "2">>,
      <<"8", "-", "-", "2">>,
      <<"2", "*", "5">>,
      <<"9", " ", "/", " ", "3">>,
      <<"8", " ", "/", " ", "0">>,
      <<"/", " ", "2">>,
      <<"*", "3">>,
      <<"/", "0">>,
      <<"+", " ", "-", "\t", "5">>,
      <<"1", " ", "+", " ", "-", "\t", "2">>,
      <<"a", "b", "c">>,
      <<>>, <<"=">>, <<"C">>, <<"h", "i", "s", "t">>, <<"q">> }

LegacyFrame ==
    UNCHANGED <<calc, outcome, scenario, session, mapping, registries,
                running, repl_result, printed>>

LegacyLine ==
    /\ \E raw \in LegacyLines : calculator_line(raw)
    /\ Len(legacy'.history) <= MaxOps
    /\ LegacyFrame

LegacyEndOfInput == calculator_end_of_input /\ LegacyFrame

NextLegacy ==
    \/ LegacyLine
    \/ LegacyEndOfInput

SpecLegacy == Init /\ [][NextLegacy]_vars

\* ------------------------------------------------------------------------
\* Properties
\* ------------------------------------------------------------------------

\* C1 - undo/redo inverse law: after n successful perform_operation calls on
\* a new Calculator, k undo() calls (k <= n) followed by k redo() calls leave
\* the history that existed before the first undo.
UndoRedoInverse ==
    (phase = "redo" /\ redone = undone) => history = mark

\* two calculations were recorded, both were undone and both redone
UndoRedoInverseWitness ==
    /\ phase = "redo"
    /\ undone = 2
    /\ redone = 2
    /\ Len(history) = 2
    /\ history[1] # history[2]

\* operand strings of OperandPairs that are not numbers or exceed the
\* maximum: "x" is no number, 2000 is above max_input_value
RejectedOperands == { <<"x">>, <<"2", "0", "0", "0">> }

PerformStep == call' = "perform_operation"

NoOperationMessage == "No operation set. Call set_operation() first."

\* C2 - redo invalidation: after every successful perform_operation the redo
\* stack is empty, and a redo() called next returns False and changes nothing.
RedoInvalidation ==
    [][ /\ (PerformStep /\ raised' = "none") => redo_stack' = <<>>
        /\ (call = "perform_operation" /\ raised = "none" /\ call' = "redo")
              => (ret' = "False" /\ UNCHANGED calc)
      ]_vars

\* a calculation succeeded on top of an earlier one
RedoInvalidationWitness ==
    /\ call = "perform_operation"
    /\ raised = "none"
    /\ Len(history) = 2
    /\ redo_stack = <<>>

\* C3 - rollback on failure: when perform_operation raises OperationError the
\* history is as before the call and the undo stack has the size it had.
RollbackOnFailure ==
    [][ (PerformStep /\ raised' = "OperationError")
            => (history' = history /\ Len(undo_stack') = Len(undo_stack))
      ]_vars

\* a division by zero was refused with a calculation already recorded
RollbackOnFailureWitness ==
    /\ call = "perform_operation"
    /\ raised = "OperationError"
    /\ message = "Division by zero is not allowed"
    /\ Len(history) >= 1
    /\ Len(undo_stack) = Len(history)

\* C4 - no partial state change: when perform_operation fails while executing
\* the armed operation, history, undo stack and redo stack are all as they
\* were before the call.
FailedExecutionChangesNothing ==
    [][ (PerformStep /\ raised' = "OperationError" /\ operation # None)
            => UNCHANGED <<history, undo_stack, redo_stack>>
      ]_vars

\* C5 - validation precedes every mutation: an operand that is not a number
\* or exceeds the maximum makes perform_operation raise ValidationError,
\* armed or not, with history, both stacks and the armed operation unchanged.
ValidationPrecedesMutation ==
    [][ (PerformStep /\ (args'[1] \in RejectedOperands \/ args'[2] \in RejectedOperands))
            => /\ raised' = "ValidationError"
               /\ notified' = <<>>
               /\ UNCHANGED <<history, undo_stack, redo_stack, operation>>
      ]_vars

\* an operand was rejected while a calculation could have been redone
ValidationPrecedesMutationWitness ==
    /\ call = "perform_operation"
    /\ raised = "ValidationError"
    /\ args[2] \in RejectedOperands
    /\ Len(history) >= 1
    /\ redo_stack # <<>>

\* C6 - with valid operands and no operation armed, perform_operation raises
\* OperationError("No operation set ...") and changes nothing; no observer is
\* notified.
NoOperationSet ==
    [][ (PerformStep /\ operation = None
            /\ args'[1] \notin RejectedOperands /\ args'[2] \notin RejectedOperands)
            => /\ raised' = "OperationError"
               /\ message' = NoOperationMessage
               /\ notified' = <<>>
               /\ UNCHANGED <<history, undo_stack, redo_stack>>
      ]_vars

\* the call was refused for want of an operation, an observer being
\* registered and a calculation being there to redo
NoOperationSetWitness ==
    /\ call = "perform_operation"
    /\ raised = "OperationError"
    /\ message = NoOperationMessage
    /\ observers # <<>>
    /\ redo_stack # <<>>

\* C7 - a successful perform_operation appends exactly one Calculation to the
\* history, the earlier entries unchanged, and pushes exactly one snapshot,
\* holding the history as it was before the call, on the undo stack.
SuccessExtendsByOne ==
    [][ (PerformStep /\ raised' = "none")
            => /\ Len(history') = Len(history) + 1
               /\ SubSeq(history', 1, Len(history)) = history
               /\ history'[Len(history')].operation = operation
               /\ Len(undo_stack') = Len(undo_stack) + 1
               /\ SubSeq(undo_stack', 1, Len(undo_stack)) = undo_stack
               /\ undo_stack'[Len(undo_stack')].history = history
      ]_vars

\* a second, different calculation was recorded after a first
SuccessExtendsByOneWitness ==
    /\ call = "perform_operation"
    /\ raised = "none"
    /\ Len(history) = 2
    /\ history[1] # history[2]
    /\ Len(undo_stack) = 2
    /\ undo_stack[2].history = <<history[1]>>

\* C8 - undo(): on an empty undo stack it returns False and changes nothing;
\* otherwise it returns True, the history becomes the top snapshot's, the undo
\* stack loses that snapshot and the redo stack gains one snapshot holding
\* the history as it was before the undo.
UndoContract ==
    [][ (call' = "undo")
            => IF undo_stack = <<>>
               THEN ret' = "False" /\ UNCHANGED calc
               ELSE /\ ret' = "True"
                    /\ history' = undo_stack[Len(undo_stack)].history
                    /\ undo_stack' = SubSeq(undo_stack, 1, Len(undo_stack) - 1)
                    /\ Len(redo_stack') = Len(redo_stack) + 1
                    /\ SubSeq(redo_stack', 1, Len(redo_stack)) = redo_stack
                    /\ redo_stack'[Len(redo_stack')].history = history
                    /\ UNCHANGED <<observers, operation>>
      ]_vars

\* the second of two calculations was undone
UndoContractWitness ==
    /\ call = "undo"
    /\ ret = "True"
    /\ Len(history) = 1
    /\ Len(undo_stack) = 1
    /\ Len(redo_stack) = 1
    /\ Len(redo_stack[1].history) = 2

\* C9 - redo(): on an empty redo stack it returns False and changes nothing;
\* otherwise it returns True, the history becomes the top snapshot's, the redo
\* stack loses that snapshot and the undo stack gains one snapshot holding
\* the history as it was before the redo.
RedoContract ==
    [][ (call' = "redo")
            => IF redo_stack = <<>>
               THEN ret' = "False" /\ UNCHANGED calc
               ELSE /\ ret' = "True"
                    /\ history' = redo_stack[Len(redo_stack)].history
                    /\ redo_stack' = SubSeq(redo_stack, 1, Len(redo_stack) - 1)
                    /\ Len(undo_stack') = Len(undo_stack) + 1
                    /\ SubSeq(undo_stack', 1, Len(undo_stack)) = undo_stack
                    /\ undo_stack'[Len(undo_stack')].history = history
                    /\ UNCHANGED <<observers, operation>>
      ]_vars

\* the first of two undone calculations was redone
RedoContractWitness ==
    /\ call = "redo"
    /\ ret = "True"
    /\ Len(history) = 1
    /\ Len(undo_stack) = 1
    /\ undo_stack[1].history = <<>>
    /\ Len(redo_stack) = 1
    /\ Len(redo_stack[1].history) = 2

\* C10 - clear_history(), in any state, leaves history, undo stack and redo
\* stack empty and notifies no observer; an undo() or redo() called next
\* returns False.
ClearHistoryContract ==
    [][ /\ (call' = "clear_history")
              => /\ history' = <<>>
                 /\ undo_stack' = <<>>
                 /\ redo_stack' = <<>>
                 /\ notified' = <<>>
                 /\ raised' = "none"
        /\ (call = "clear_history" /\ call' \in {"undo", "redo"})
              => (ret' = "False" /\ UNCHANGED calc)
      ]_vars

\* clear_history() has just run, with an observer registered and an
\* operation armed
ClearHistoryContractWitness ==
    /\ call = "clear_history"
    /\ history = <<>>
    /\ undo_stack = <<>>
    /\ redo_stack = <<>>
    /\ observers # <<>>
    /\ operation # None

\* C11 - show_history returns a copy: the call changes no engine state and
\* returns the entries of the history, and whatever the caller then does to
\* the returned list (clear, append, remove) leaves the history, the undo
\* stack and the redo stack as they were.
ShowHistoryReturnsCopy ==
    [][ /\ call' = "show_history"
            => (/\ shown'.items = history
                /\ <<history, undo_stack, redo_stack, observers, operation>>'
                     = <<history, undo_stack, redo_stack, observers, operation>>)
        /\ call' \in {"list.clear", "list.append", "list.remove"}
            => <<history, undo_stack, redo_stack>>' = <<history, undo_stack, redo_stack>>
      ]_vars

\* the caller emptied the list it was handed while the engine holds an entry
\* and a snapshot
ShowHistoryReturnsCopyWitness ==
    /\ call = "list.clear"
    /\ shown.items = <<>>
    /\ history # <<>>
    /\ undo_stack # <<>>

\* C12 - observer notification exactly on success: a perform_operation that
\* succeeds calls update once on every registered observer, in registration
\* order, with the Calculation just appended to the history; one that raises
\* ValidationError or OperationError calls none; undo, redo, clear_history,
\* save_history and load_history call none.
NotificationOnSuccess ==
    [][ /\ (PerformStep /\ raised' = "none")
            => (/\ Len(notified') = Len(observers)
                /\ \A i \in 1..Len(observers) :
                       /\ notified'[i].observer = observers[i]
                       /\ notified'[i].calculation = history'[Len(history')])
        /\ (PerformStep /\ raised' \in {"ValidationError", "OperationError"})
            => notified' = <<>>
        /\ call' \in {"undo", "redo", "clear_history", "save_history", "load_history"}
            => notified' = <<>>
      ]_vars

\* a successful calculation with two different observers registered
NotificationOnSuccessWitness ==
    /\ call = "perform_operation"
    /\ raised = "none"
    /\ observers = <<"CapturingObserver", "LoggingObserver">>
    /\ Len(notified) = 2
    /\ notified[1].observer = "CapturingObserver"

\* C13 - persistence round trip: when the history file holds what
\* save_history wrote last, load_history (whether or not clear_history or
\* other calls came in between) leaves a history with the same number of
\* entries, in the same order, with the same operation and operands as the
\* history that was saved.
SaveLoadRoundTrip ==
    [][ (call' = "load_history" /\ phase = "saved" /\ file.exists)
            => /\ Len(history') = Len(mark)
               /\ \A i \in 1..Len(mark) :
                      /\ history'[i].operation = mark[i].operation
                      /\ history'[i].operand1 = mark[i].operand1
                      /\ history'[i].operand2 = mark[i].operand2
      ]_vars

\* two different calculations were saved, the engine was cleared, and the
\* load brought both back
SaveLoadRoundTripWitness ==
    /\ call = "load_history"
    /\ phase = "saved"
    /\ Len(mark) = 2
    /\ mark[1].operation # mark[2].operation
    /\ mark[1].operand1 = -10
    /\ history = mark
    /\ undo_stack = <<>>

\* a row of the history file that names a registered operation and whose two
\* operands are texts float() accepts
ParseableRow(row) ==
    /\ row.operation \in {"add", "subtract", "multiply", "divide", "power", "root"}
    /\ float_of_text(row.operand1).exc = "none"
    /\ float_of_text(row.operand2).exc = "none"

\* C14 - skip-invalid-on-load: when the history file exists, load_history
\* raises nothing and leaves a history made of exactly the rows that name a
\* registered operation and have two parseable operands, in file order; the
\* rows of an unregistered operation or with an unparseable operand are
\* skipped and the previous history is discarded.
SkipInvalidOnLoad ==
    [][ (call' = "load_history" /\ file.exists)
            => /\ raised' = "none"
               /\ Len(history') = Cardinality({i \in 1..Len(file.rows) : ParseableRow(file.rows[i])})
               /\ \A i \in 1..Len(history') :
                      \E j \in 1..Len(file.rows) :
                          /\ ParseableRow(file.rows[j])
                          /\ history'[i].operation = file.rows[j].operation
                          /\ history'[i].operand1 = float_of_text(file.rows[j].operand1).val
                          /\ history'[i].operand2 = float_of_text(file.rows[j].operand2).val
      ]_vars

\* C15 - when the history file does not exist, load_history is a no-op: it
\* raises nothing and history, undo stack and redo stack are as before.
LoadWithoutFile ==
    [][ (call' = "load_history" /\ ~file.exists)
            => /\ raised' = "none"
               /\ history' = history
               /\ undo_stack' = undo_stack
               /\ redo_stack' = redo_stack
      ]_vars

\* load_history was called with no file while the engine held a calculation
\* and a snapshot
LoadWithoutFileWitness ==
    /\ call = "load_history"
    /\ ~file.exists
    /\ history # <<>>
    /\ undo_stack # <<>>

\* C16 - every failure raised while the armed operation executes, whatever
\* its exception type, surfaces from perform_operation as OperationError
\* carrying the underlying message, with the snapshot just pushed popped
\* again and no history entry recorded.
ExecutionFailureIsOperationError ==
    [][ (/\ PerformStep
         /\ operation # None
         /\ raised' \notin {"none", "ValidationError"})
            => /\ raised' = "OperationError"
               /\ undo_stack' = undo_stack
               /\ history' = history
      ]_vars

\* C17 - operand rules: execute raises ValidationError, and gives no result,
\* exactly when b = 0 for divide, when b < 0 for power, and when a < 0 or
\* b = 0 for root (the negative-radicand message when both hold);
\* add, subtract and multiply never fail validation.
OperandRules ==
    call = "execute" =>
        LET op == args[1]
            a  == args[2]
            b  == args[3]
            invalid == raised = "ValidationError"
        IN  /\ op = "divide" => (invalid <=> b = 0)
            /\ op = "power" => (invalid <=> b < 0)
            /\ op = "root" => (invalid <=> (a < 0 \/ b = 0))
            /\ (op = "root" /\ a < 0 /\ b = 0)
                   => message = "Cannot calculate root of negative number"
            /\ op \in {"add", "subtract", "multiply"} => ~invalid
            /\ invalid => (ret = "None" /\ result = [kind |-> "none", num |-> 0, den |-> 1])

\* a zero-degree root of a negative number was refused for its radicand
OperandRulesWitness ==
    /\ call = "execute"
    /\ args = <<"root", -1, 0>>
    /\ raised = "ValidationError"
    /\ message = "Cannot calculate root of negative number"

\* the two operands of the last perform_operation, as numbers
OperandA == Value(validate_number(args[1]).num)

OperandB == Value(validate_number(args[2]).num)

DueMessage ==
    IF created.operation = "divide" /\ created.operand2 = 0
    THEN "Division by zero is not allowed"
    ELSE IF created.operation = "power" /\ created.operand2 < 0
    THEN "Negative exponents not supported"
    ELSE IF created.operation = "root" /\ created.operand1 < 0
    THEN "Cannot calculate root of negative number"
    ELSE IF created.operation = "root" /\ created.operand2 = 0
    THEN "Zero root is undefined"
    ELSE ""

\* C20 - errors are raised on access, and reproducibly: building a
\* Calculation of a registered type succeeds whatever its operands; every
\* read of the result of one whose operands break the rule of its operation
\* raises the same ValidationError, and every read of the result of any
\* other Calculation gives what the read before gave.
ErrorsOnAccess ==
    [][ /\ (call' = "create_calculation"
              /\ args'[1] \in {"add", "subtract", "multiply", "divide", "power", "root"})
            => (/\ raised' = "none"
                /\ created' = [operation |-> args'[1], operand1 |-> args'[2],
                               operand2 |-> args'[3]])
        /\ (call' = "result" /\ DueMessage # "")
            => (raised' = "ValidationError" /\ message' = DueMessage)
        /\ (call' = "result" /\ DueMessage = "")
            => raised' # "ValidationError"
        /\ (call' = "result" /\ call = "result")
            => (raised' = raised /\ message' = message /\ result' = result)
      ]_vars

\* 1 / 0 was built and its result read twice, raising each time
ErrorsOnAccessWitness ==
    /\ call = "result"
    /\ reads = 2
    /\ created = [operation |-> "divide", operand1 |-> 1, operand2 |-> 0]
    /\ raised = "ValidationError"
    /\ message = "Division by zero is not allowed"

\* C21 - serialization round trip: for a Calculation of a registered
\* operation whose operands are valid for it, from_dict(to_dict(c)) is a
\* Calculation with the same operation, the same operand1 and operand2 and
\* the same result as c.
DictRoundTrip ==
    [][ (call = "to_dict" /\ raised = "none" /\ call' = "from_dict")
            => /\ raised' = "none"
               /\ created'.operation = created.operation
               /\ created'.operand1 = created.operand1
               /\ created'.operand2 = created.operand2
               /\ calculation_result(created') = calculation_result(created)
      ]_vars

\* 2 - 1 went through to_dict and from_dict
DictRoundTripWitness ==
    /\ call = "from_dict"
    /\ raised = "none"
    /\ mapping = [operation |-> "subtract", operand1 |-> 2, operand2 |-> 1,
                  result |-> [kind |-> "exact", num |-> 1, den |-> 1]]
    /\ created = [operation |-> "subtract", operand1 |-> 2, operand2 |-> 1]

\* C22 - creating a Calculation of a type that is not registered fails with
\* 'Unsupported calculation type' and creates nothing; load_history, which
\* catches that failure, leaves out the rows of an unregistered operation.
UnsupportedCalculationType ==
    [][ /\ (/\ call' = "create_calculation"
            /\ args'[1] \notin {"add", "subtract", "multiply", "divide", "power", "root"})
            => (/\ raised' = "ValueError"
                /\ message' = "Unsupported calculation type"
                /\ created' = created)
        /\ (call' = "load_history" /\ file.exists)
            => (/\ raised' = "none"
                /\ \A i \in 1..Len(history') :
                       history'[i].operation
                           \in {"add", "subtract", "multiply", "divide", "power", "root"})
      ]_vars

\* the factory refused the type 'unknown'
UnsupportedCalculationTypeWitness ==
    /\ call = "create_calculation"
    /\ args[1] = "unknown"
    /\ raised = "ValueError"
    /\ created.operation = None

\* C23 - with the six operations registered at import, create_operation
\* returns an instance of the class registered for add, subtract, multiply,
\* divide, power and root, whatever the case of the letters of the name; for
\* every name that is not registered it raises 'Unknown operation: <name>'
\* and returns nothing.
CreateOperationContract ==
    [][ call' = "create_operation"
            => /\ operations' = operations
               /\ IF text(lower(args'[1])) \in DOMAIN operations
                  THEN /\ raised' = "none"
                       /\ ret' = operations[text(lower(args'[1]))]
                       /\ (operations = OperationClasses
                              /\ text(lower(args'[1])) = "multiply")
                              => ret' = "Multiplication"
                  ELSE /\ raised' = "ValueError"
                       /\ message' = "Unknown operation: " \o text(args'[1])
                       /\ ret' = "None"
      ]_vars

\* 'POWER' gave a Power
CreateOperationContractWitness ==
    /\ call = "create_operation"
    /\ args = << <<"P", "O", "W", "E", "R">> >>
    /\ raised = "none"
    /\ ret = "Power"
    /\ operations = OperationClasses

\* C24 - register_operation with a class that is not an Operation raises a
\* TypeError and leaves the registry as it was; with an Operation class it
\* binds the lower-cased name to that class, replacing any class the name
\* had, so that the next create_operation of the name gives the new class;
\* register_calculation of a type that is registered raises 'already
\* registered' and keeps the class the type had.
RegistryPolicies ==
    [][ /\ call' = "register_operation"
            => IF args'[2] \in {"str"}
               THEN /\ raised' = "TypeError"
                    /\ operations' = operations
               ELSE /\ raised' = "none"
                    /\ operations'[text(lower(args'[1]))] = args'[2]
                    /\ \A k \in DOMAIN operations \ {text(lower(args'[1]))} :
                           k \in DOMAIN operations' /\ operations'[k] = operations[k]
        /\ (/\ call = "register_operation" /\ raised = "none"
            /\ call' = "create_operation"
            /\ lower(args'[1]) = lower(args[1]))
            => (raised' = "none" /\ ret' = args[2])
        /\ (call' = "register_calculation" /\ args'[1] \in DOMAIN calculations)
            => /\ raised' = "ValueError"
               /\ message' = "already registered"
               /\ calculations' = calculations
      ]_vars

\* 'Add' was registered again with Subtraction and create_operation('ADD')
\* then gave a Subtraction
RegistryPoliciesWitness ==
    /\ call = "create_operation"
    /\ args = << <<"A", "D", "D">> >>
    /\ ret = "Subtraction"
    /\ operations["add"] = "Subtraction"
    /\ calculations = CalculationClasses

\* C25 - once the Calculator is constructed the loop ends only on quit, q or
\* the end of the input: a line whose calculation fails, in whatever way,
\* is answered by a message and the loop is back at its prompt.
ReplSurvivesEveryError ==
    [][ /\ running.at = "armed"
            => /\ running'.at = "prompt"
               /\ raised' # "none" => printed' # "Traceback"
        /\ (running.at = "prompt" /\ running'.at # "prompt")
            => \/ running'.at = "armed"
               \/ /\ running'.at = "exited"
                  /\ printed' = "Exiting"
                  /\ text(lower(running'.line)) \in {"", "q", "quit"}
      ]_vars

\* the lines of the session whose calculation C26 follows, with the
\* operation and the operand strings each one stands for
ExpectedCalls ==
    { [line |-> <<"2", "+", "3">>,
       op |-> "add", a |-> <<"2">>, b |-> <<"3">>],
      [line |-> <<"8", "-", "-", "2">>,
       op |-> "subtract", a |-> <<"8">>, b |-> <<"-", "2">>],
      [line |-> <<"-", " ", "5", " ", "*", " ", "1", "0">>,
       op |-> "multiply", a |-> <<"-", "5">>, b |-> <<"1", "0">>],
      [line |-> <<"8", " ", "/", " ", "2">>,
       op |-> "divide", a |-> <<"8">>, b |-> <<"2">>],
      [line |-> <<"2", " ", "+", " ", "2", "0", "0", "0">>,
       op |-> "add", a |-> <<"2">>, b |-> <<"2", "0", "0", "0">>],
      [line |-> <<"P", "o", "w", "e", "r", " ", "2", " ", " ", "3">>,
       op |-> "power", a |-> <<"2">>, b |-> <<"3">>],
      [line |-> <<"p", "o", "w", "e", "r", " ", "1", "0", " ", "9", "9", "9">>,
       op |-> "power", a |-> <<"1", "0">>, b |-> <<"9", "9", "9">>],
      [line |-> <<"r", "o", "o", "t", " ", "-", "4", " ", "2">>,
       op |-> "root", a |-> <<"-", "4">>, b |-> <<"2">>] }

\* C26 - an infix line 'a op b' arms add, subtract, multiply or divide for
\* +, -, * and /, a line of three words that starts with power or root arms
\* that operation, and perform_operation is then called with the two operand
\* strings in the order they were written.
OperatorMapping ==
    [][ /\ (running.at = "prompt" /\ running'.line \in {e.line : e \in ExpectedCalls})
            => /\ running'.at = "armed"
               /\ call' = "set_operation"
               /\ \A e \in ExpectedCalls :
                      running'.line = e.line => operation' = e.op
        /\ running.at = "armed"
            => /\ call' = "perform_operation"
               /\ \A e \in ExpectedCalls :
                      running.line = e.line
                          => (operation = e.op /\ args' = <<e.a, e.b>>)
      ]_vars

\* '8--2' was answered by subtract on '8' and '-2', which is 10
OperatorMappingWitness ==
    /\ running = Answered(<<"8", "-", "-", "2">>)
    /\ call = "perform_operation"
    /\ operation = "subtract"
    /\ args = << <<"8">>, <<"-", "2">> >>
    /\ result = Exact(10)
    /\ printed = "10"

\* C27 - a line 'op b' is evaluated as 'r op b', r being the running result:
\* the result of the last successful calculation, or that of the last entry
\* of the history after undo, redo or load.  With no running result the line
\* is answered by an error and nothing is calculated: history, both stacks
\* and the running result are unchanged.
ContinuationContract ==
    [][ /\ (running.at = "armed" /\ running.line = <<"+", " ", "5">>)
            => /\ repl_result.is = "Decimal"
               /\ raised' = "none"
               /\ result' = Exact(Value(repl_result) + 5)
               /\ history'[Len(history')] =
                      [operation |-> "add", operand1 |-> Value(repl_result),
                       operand2 |-> 5]
        /\ (running.at = "armed" /\ raised' = "none")
            => (repl_result'.is = "Decimal" /\ Exact(Value(repl_result')) = result')
        /\ (running.at = "armed" /\ raised' # "none")
            => repl_result' = repl_result
        /\ (/\ running.at = "prompt"
            /\ text(lower(running'.line)) \in {"undo", "redo", "load"}
            /\ ret' # "False")
            => IF history' = <<>> THEN repl_result'.is = "None"
               ELSE /\ repl_result'.is = "Decimal"
                    /\ Exact(Value(repl_result'))
                           = calculation_result(history'[Len(history')]).val
        /\ (/\ running.at = "prompt"
            /\ repl_result.is = "None"
            /\ running'.line \in {<<"+", " ", "5">>, <<"/", "0">>})
            => /\ running'.at = "prompt"
               /\ printed' = "Error: No previous result. Start with a full expression, e.g. '1 + 2'."
               /\ UNCHANGED <<history, undo_stack, redo_stack, repl_result>>
      ]_vars

\* '+ 5' continued from the -50.0 that undo restored
ContinuationContractWitness ==
    /\ running = Answered(<<"+", " ", "5">>)
    /\ call = "perform_operation"
    /\ args = << <<"-", "5", "0", ".", "0">>, <<"5">> >>
    /\ result = Exact(-45)
    /\ repl_result = Some([coef |-> -45, exp |-> 0])

\* the same line refused for want of a running result
ContinuationRefused ==
    /\ running = Answered(<<"+", " ", "5">>)
    /\ repl_result.is = "None"
    /\ history = <<>>

\* C28 - a snapshot is immutable once taken: the history a memento on the
\* undo stack or on the redo stack holds is the same after any call - a
\* later perform_operation, undo, redo, clear_history or load_history, or a
\* change made to a list show_history returned - for as long as the memento
\* stays on its stack.
SnapshotsImmutable ==
    [][ /\ \A i \in 1..Len(undo_stack) :
               i <= Len(undo_stack') => undo_stack'[i].history = undo_stack[i].history
        /\ \A i \in 1..Len(redo_stack) :
               i <= Len(redo_stack') => redo_stack'[i].history = redo_stack[i].history
      ]_vars

\* load_history replaced a history of one entry, of which the undo stack
\* holds the snapshot taken before it and the redo stack nothing
SnapshotsImmutableWitness ==
    /\ call = "load_history"
    /\ Len(undo_stack) = 1
    /\ undo_stack[1].history = <<>>
    /\ Len(history) = 1
    /\ history[1].operation = "add"
    /\ shown.ref = "copy"
    /\ Len(shown.items) > Len(history)

\* C29 - set_operation changes the armed operation and nothing else: it
\* accepts whatever it is given without failing and leaves history, both
\* stacks and the observers as they were; the operation then stays armed
\* through perform_operation, whether it succeeds or fails, undo, redo,
\* clear_history, load_history and save_history.
OperationStaysArmed ==
    [][ /\ call' = "set_operation"
            => /\ raised' = "none"
               /\ operation' = args'[1]
               /\ UNCHANGED <<history, undo_stack, redo_stack, observers>>
        /\ call' \in {"perform_operation", "undo", "redo", "clear_history",
                      "load_history", "save_history", "add_observer"}
            => operation' = operation
      ]_vars

\* divide is still armed after a division by zero was refused
OperationStaysArmedWitness ==
    /\ call = "perform_operation"
    /\ raised = "OperationError"
    /\ operation = "divide"
    /\ observers # <<>>
    /\ history # <<>>

\* C30 - in every state reached by set_operation, perform_operation (which
\* succeeds or fails with ValidationError or OperationError), undo, redo and
\* clear_history, the undo stack holds as many snapshots as the history has
\* entries, and the i-th snapshot from the bottom, counted from 0, is the
\* first i entries of the history.
UndoStackMirrorsHistory ==
    /\ Len(undo_stack) = Len(history)
    /\ \A i \in 1..Len(undo_stack) :
           undo_stack[i].history = SubSeq(history, 1, i - 1)

\* two entries brought back by redo, under two snapshots
UndoStackMirrorsHistoryWitness ==
    /\ call = "redo"
    /\ ret = "True"
    /\ Len(history) = 2
    /\ Len(undo_stack) = 2
    /\ undo_stack[2].history = <<history[1]>>
    /\ redo_stack = <<>>

\* C31 - perform_operation leaves no orphan snapshot: whenever it raises
\* without having appended a Calculation to the history, the undo stack is
\* what it was before the call - also when the armed operation executed and
\* CalculationFactory then refused its name.
NoOrphanSnapshot ==
    [][ (PerformStep /\ raised' # "none" /\ history' = history)
            => undo_stack' = undo_stack
      ]_vars

\* C32 - the result of every Calculation in the history can be read without
\* raising, in every state reached by perform_operation, undo, redo and
\* load_history; save_history, which reads the result of every entry,
\* therefore never raises the error of an operation's domain.
HistoryResultsReadable ==
    /\ \A i \in 1..Len(history) : calculation_result(history[i]).exc = "none"
    /\ call = "save_history" => raised = "none"

\* C33 - load_history of an existing file replaces the history and nothing
\* else: both stacks keep their contents, so the load is no step to undo,
\* and an undo() called right after it restores the snapshot on top of the
\* undo stack, taken before the load, and saves the loaded history for redo.
LoadIsNotUndoable ==
    [][ /\ (call' = "load_history" /\ file.exists)
            => /\ raised' = "none"
               /\ undo_stack' = undo_stack
               /\ redo_stack' = redo_stack
        /\ (call = "load_history" /\ call' = "undo" /\ undo_stack # <<>>)
            => /\ ret' = "True"
               /\ history' = undo_stack[Len(undo_stack)].history
               /\ Len(undo_stack') = Len(undo_stack) - 1
               /\ redo_stack'[Len(redo_stack')].history = history
      ]_vars

\* a file written from outside was loaded over a history of one calculation,
\* whose snapshot is still the only one on the undo stack
LoadIsNotUndoableWitness ==
    /\ call = "load_history"
    /\ phase = "written"
    /\ Len(undo_stack) = 1
    /\ undo_stack[1].history = <<>>
    /\ redo_stack = <<>>
    /\ Len(history) >= 1
    /\ history[1] = [operation |-> "add", operand1 |-> 2, operand2 |-> 3]

\* C34 - commit precedes notification: every update(calculation) made by a
\* successful perform_operation finds the calculation as the last entry of
\* the history, the snapshot of the history before the call on top of the
\* undo stack and the redo stack empty; the file the AutoSaveObserver saves
\* from update therefore ends with the row of the new calculation.
CommitPrecedesNotification ==
    [][ (PerformStep /\ raised' = "none" /\ notified' # <<>> /\ history' # history)
            => /\ \A i \in 1..Len(notified') :
                    LET seen == notified'[i].seen
                    IN  /\ seen.history = history'
                        /\ seen.history # <<>>
                        /\ seen.history[Len(seen.history)] = notified'[i].calculation
                        /\ seen.undo_stack = undo_stack'
                        /\ seen.undo_stack # <<>>
                        /\ seen.undo_stack[Len(seen.undo_stack)].history = history
                        /\ seen.redo_stack = <<>>
               /\ (\E i \in 1..Len(notified') : notified'[i].observer = "AutoSaveObserver")
                    => /\ file'.exists
                       /\ Len(file'.rows) = Len(history')
                       /\ file'.rows[Len(file'.rows)] = csv_row(history'[Len(history')])
      ]_vars

\* a continuation recorded on top of an earlier calculation, with both
\* observers of the REPL notified and the file rewritten with two rows
CommitPrecedesNotificationWitness ==
    /\ call = "perform_operation"
    /\ raised = "none"
    /\ Len(notified) = 2
    /\ notified[2].observer = "AutoSaveObserver"
    /\ Len(notified[2].seen.history) = 2
    /\ Len(notified[2].seen.undo_stack) >= 1
    /\ file.exists
    /\ Len(file.rows) = 2

\* C35 - REPL session invariant: after every processed input line the
\* running result of the prompt is absent exactly when the history is empty,
\* and after a successful undo, redo or load it is the result of the last
\* entry of the history.
ReplResultTracksHistory ==
    running.at = "prompt"
        => /\ repl_result.is = "None" <=> history = <<>>
           /\ (text(lower(running.line)) \in {"undo", "redo", "load"}
                 /\ printed = "done" /\ history # <<>>)
                => repl_result = Some(restored_result(history[Len(history)]))

\* C36 - legacy REPL: a calculation is appended to the session history and
\* becomes the running result only if its execute succeeds; a division by
\* zero or a number that does not parse leaves both unchanged and the loop
\* goes on; clear resets both; so the running result is absent exactly when
\* the history is empty.
LegacySessionConsistent ==
    [][ /\ legacy'.result = NoFloat <=> legacy'.history = <<>>
        /\ (legacy'.history # legacy.history /\ legacy'.history # <<>>)
              => /\ Len(legacy'.history) = Len(legacy.history) + 1
                 /\ SubSeq(legacy'.history, 1, Len(legacy.history)) = legacy.history
                 /\ legacy_execute(legacy'.history[Len(legacy'.history)]) =
                        [exc |-> "none", msg |-> "", val |-> legacy'.result]
                 /\ legacy'.printed = "value"
        /\ legacy'.printed \in {"Error: Cannot divide by zero",
                                "Error: Not a valid number: '-\t5'",
                                "Error: Not a valid number: '-\t2'"}
              => /\ legacy'.result = legacy.result
                 /\ legacy'.history = legacy.history
                 /\ legacy'.at = "prompt"
        /\ legacy'.printed = "Cleared."
              => /\ legacy'.result = NoFloat
                 /\ legacy'.history = <<>>
      ]_vars

\* a division by zero refused after one calculation: the history and the
\* running result are those of that calculation
LegacySessionConsistentWitness ==
    /\ legacy.at = "prompt"
    /\ legacy.line = <<"/", "0">>
    /\ legacy.printed = "Error: Cannot divide by zero"
    /\ Len(legacy.history) = 1
    /\ legacy.result = fraction(3, 1)

====
